---- MODULE Spec2Model ----
(***************************************************************************)
(* Feature cache, extraction orchestrators and directory indexer of the    *)
(* mcp-feature-cache repository, as a state machine.                       *)
(*                                                                         *)
(* Time is the integer second Math.floor(Date.now() / 1000).  A file's     *)
(* bytes are a version number; SHA-256 is taken to be injective, so the    *)
(* checksum of version v is v.  A string built from several parts (a URL,  *)
(* an encoded value) is a record of its parts.                             *)
(***************************************************************************)
EXTENDS Integers, Sequences, FiniteSets, Bags, TLC

\* ------------------------------------------------------------------ bounds
MaxTime == 2
MaxVersion == 1
MaxFilesOpt == 2
MaxResources == 1
MaxSteps == 3
MaxRaceSteps == 5
MaxDriftSteps == 4
MaxLimitSteps == 6
MaxFreshSteps == 4
MaxPartialSteps == 4
MaxPassSteps == 4

\* ------------------------------------------------------- program constants
DefaultStoreTtl == 3600
DefaultExtractTtl == 86400
DefaultIndexTtl == 86400
DefaultMaxFiles == 100
BackgroundMaxFiles == 50
McpDefaultTtl == 3600
ProviderLimit == 5

\* ---------------------------------------------------------- the file system
\* One directory tree, each directory in readdir order:
\*   /d      holds the directory s, then a.txt
\*   /d/s    holds the directory t, then b.png
\*   /d/s/t  holds c.mp4
Files == {"/d/a.txt", "/d/s/b.png", "/d/s/t/c.mp4"}
Dirs == {"/d", "/d/s", "/d/s/t"}

Entries(dir) ==
  CASE dir = "/d"     -> << [path |-> "/d/s",         isDir |-> TRUE],
                            [path |-> "/d/a.txt",     isDir |-> FALSE] >>
    [] dir = "/d/s"   -> << [path |-> "/d/s/t",       isDir |-> TRUE],
                            [path |-> "/d/s/b.png",   isDir |-> FALSE] >>
    [] dir = "/d/s/t" -> << [path |-> "/d/s/t/c.mp4", isDir |-> FALSE] >>
    [] OTHER          -> << >>

dirname(path) ==
  CASE path \in {"/d/a.txt", "/d/s"}     -> "/d"
    [] path \in {"/d/s/b.png", "/d/s/t"} -> "/d/s"
    [] path = "/d/s/t/c.mp4"             -> "/d/s/t"
    [] OTHER -> "/"

extname(path) ==
  CASE path = "/d/a.txt"     -> ".txt"
    [] path = "/d/s/b.png"   -> ".png"
    [] path = "/d/s/t/c.mp4" -> ".mp4"
    [] OTHER -> ""

\* mime-types lookup() by extension
lookup(path) ==
  CASE extname(path) = ".txt" -> "text/plain"
    [] extname(path) = ".png" -> "image/png"
    [] extname(path) = ".mp4" -> "video/mp4"
    [] OTHER -> "application/octet-stream"

\* A locator or URL string: the text "file://" (or nothing) followed by a path.
Plain(path) == [scheme |-> "", path |-> path]
FileUrl(path) == [scheme |-> "file://", path |-> path]
NoUrl == Plain("")

\* resourceUrl.replace('file://', '')
StripFileScheme(loc) == Plain(loc.path)

\* path.isAbsolute on the locator text: "file:///d/a.txt" does not start with '/'
isAbsolute(loc) == loc.scheme = "" /\ loc.path # ""

\* ------------------------------------------------------------------ values
\* A feature value: its form (a JavaScript number, a string of digits, other
\* text, an object, ...), the content version it was computed from (-1 when it
\* does not depend on the bytes), and how many times JSON.stringify has been
\* applied to it.
Val(form, v, q) == [form |-> form, v |-> v, q |-> q]

JSONstringify(value) == [value EXCEPT !.q = @ + 1]

\* String(value): a number becomes its digits, a string stays what it is
String(value) ==
  IF value.form = "number" /\ value.q = 0 THEN [value EXCEPT !.form = "digits"]
  ELSE value

VARIABLES
  clock,      \* Math.floor(Date.now() / 1000)
  content,    \* content[f]: the version of the bytes of file f
  resources,  \* the resources table: a set of rows
  features,   \* the features table: a bag of rows
  pending,    \* directory-indexing passes started and not yet run
  last,       \* the last operation and what it returned
  steps,      \* how many operations have run
  inFlight    \* a bag: the calls of extractFeatures whose extractor is running
              \* and the passes of indexDirectory that wait for their files

vars == << clock, content, resources, features, pending, last, steps, inFlight >>

\* ---------------------------------------------------------- FeatureDatabase
Rows(tbl) == BagToSet(tbl)

RowsOf(tbl, url) == {r \in Rows(tbl) : r.url = url}

KeysOf(tbl, url) == {r.key : r \in RowsOf(tbl, url)}

\* The rows of bag tbl that satisfy Keep, with their multiplicity
Filter(tbl, Keep(_)) == [r \in {x \in DOMAIN tbl : Keep(x)} |-> tbl[r]]

\* INSERT ... ON CONFLICT(url) DO UPDATE SET last_processed, checksum, size,
\* mime_type: the type column of an existing row is kept.
\* The values stmt.run binds: "resource.size || null" turns a size of 0 into
\* NULL, written -1
ResourceRow(resource) ==
  [resource EXCEPT !.size = IF @ = 0 THEN -1 ELSE @]

upsertNothing(tbl, resource) == tbl

upsertResource(tbl, resource) ==
  LET old == {r \in tbl : r.url = resource.url}
  IN  IF old = {}
        THEN tbl \cup {ResourceRow(resource)}
        ELSE (tbl \ old) \cup {[ResourceRow(resource) EXCEPT !.type = o.type] : o \in old}

getResource(tbl, url) == {r \in tbl : r.url = url}

\* The value column: base64 text for a Buffer, JSON.stringify for the json
\* type, String(value) otherwise.  The callers hand over text, never a Buffer.
valueStr(feature) ==
  IF feature.type \in {"binary", "embedding"} THEN feature.value
  ELSE IF feature.type = "json" THEN JSONstringify(feature.value)
  ELSE String(feature.value)

\* One insertStmt.run of storeFeatures: INSERT ... ON CONFLICT(resource_url,
\* feature_key) DO UPDATE SET every other column.
insertPlain(tbl, row) == tbl (+) SetToBag({row})

insertOrUpdate(tbl, row) ==
  LET old == {r \in Rows(tbl) : r.url = row.url /\ r.key = row.key}
  IN  IF old = {}
        THEN tbl (+) SetToBag({row})
        ELSE LET o == CHOOSE r \in old : TRUE
             IN  (tbl (-) SetToBag({o})) (+) SetToBag({row})

FeatureRow(resourceUrl, feature, now) ==
  LET ttl == IF feature.ttl = 0 THEN DefaultStoreTtl ELSE feature.ttl
  IN  [ url         |-> resourceUrl,
        key         |-> feature.key,
        value       |-> valueStr(feature),
        type        |-> feature.type,
        generatedAt |-> now,
        ttl         |-> ttl,
        expiresAt   |-> now + ttl,
        tool        |-> feature.tool ]

RECURSIVE storeFeaturesAfresh(_, _, _, _)
storeFeaturesAfresh(tbl, resourceUrl, batch, now) ==
  LET Others(r) == r.url # resourceUrl
      RECURSIVE put(_, _)
      put(t, b) == IF b = << >> THEN t
                   ELSE put(insertOrUpdate(t, FeatureRow(resourceUrl, Head(b), now)), Tail(b))
  IN  put(Filter(tbl, Others), batch)

\* storeFeatures(resourceUrl, features): the rows of the batch, in order
RECURSIVE storeFeatures(_, _, _, _)
storeFeatures(tbl, resourceUrl, batch, now) ==
  IF batch = << >> THEN tbl
  ELSE storeFeatures(insertOrUpdate(tbl, FeatureRow(resourceUrl, Head(batch), now)),
                     resourceUrl, Tail(batch), now)

\* CHECK(value_type IN (...)) of the features table
ValueTypes == {"text", "number", "binary", "embedding", "json"}

\* The loop inside the transaction of storeFeatures: the inserts run in order
\* and the first one that violates the CHECK throws, with the rows before it
\* written
RECURSIVE insertAll(_, _, _, _)
insertAll(tbl, resourceUrl, batch, now) ==
  IF batch = << >> THEN [table |-> tbl, threw |-> FALSE]
  ELSE IF Head(batch).type \notin ValueTypes THEN [table |-> tbl, threw |-> TRUE]
  ELSE insertAll(insertOrUpdate(tbl, FeatureRow(resourceUrl, Head(batch), now)),
                 resourceUrl, Tail(batch), now)

commitAlways(before, done) == done

\* this.db.transaction(fn): COMMIT when fn returns, ROLLBACK to the table as
\* it was, and the error rethrown, when fn throws
transaction(before, done) ==
  IF done.threw THEN [table |-> before, threw |-> TRUE] ELSE done

\* storeFeatures with the outcome of its transaction
storeFeaturesInTransaction(tbl, resourceUrl, batch, now) ==
  transaction(tbl, insertAll(tbl, resourceUrl, batch, now))

UnexpiredOrDue(row, now) == row.expiresAt >= now

\* The comparison of queryFeatures' "AND expires_at > ?"
Unexpired(row, now) == row.expiresAt > now

\* queryFeatures(params): a filter that is absent, empty or falsy is not applied
Matches(row, params, now) ==
  /\ (params.url # NoUrl => row.url = params.url)
  /\ (params.featureKeys # {} => row.key \in params.featureKeys)
  /\ (params.extractors # {} => row.tool \in params.extractors)
  /\ (~params.includeExpired => Unexpired(row, now))

queryFeatures(tbl, params, now) ==
  LET Keep(r) == Matches(r, params, now) IN Filter(tbl, Keep)

QueryUrl(url) ==
  [url |-> url, featureKeys |-> {}, extractors |-> {}, includeExpired |-> FALSE]

updateTTLAllKeys(tbl, resourceUrl, featureKey, ttl, now) ==
  LET Hit(r) == r.url = resourceUrl
      Same(r) == ~Hit(r)
      hit == Filter(tbl, Hit)
      new == {[r EXCEPT !.ttl = ttl, !.expiresAt = now + ttl] : r \in DOMAIN hit}
  IN  [ changes |-> BagCardinality(hit),
        table   |-> Filter(tbl, Same) (+) SetToBag(new) ]

\* updateTTL: UPDATE features SET ttl, expires_at WHERE resource_url, feature_key
updateTTLRows(tbl, resourceUrl, featureKey, ttl, now) ==
  LET Hit(r) == r.url = resourceUrl /\ r.key = featureKey
      Same(r) == ~Hit(r)
      hit == Filter(tbl, Hit)
      new == {[r EXCEPT !.ttl = ttl, !.expiresAt = now + ttl] : r \in DOMAIN hit}
  IN  [ changes |-> BagCardinality(hit),
        table   |-> Filter(tbl, Same) (+) SetToBag(new) ]

\* The comparison of cleanExpiredFeatures' "DELETE ... WHERE expires_at < ?"
Swept(row, now) == row.expiresAt < now

cleanExpiredFeatures(tbl, now) ==
  LET Gone(r) == Swept(r, now)
      Kept(r) == ~Swept(r, now)
  IN  [ changes |-> BagCardinality(Filter(tbl, Gone)),
        table   |-> Filter(tbl, Kept) ]

\* ------------------------------------------------------------ ResourceLoader
\* What the environment does to one call: the load fails (the file is gone or
\* unreadable), the extractor throws, ffmpeg is not installed, or ffprobe/ffmpeg
\* fails after k snapshots were written.
Out(kind, k) == [kind |-> kind, k |-> k]

SizeOf(version) == 10 + version

\* load(resourceUrl): no locator of the model is an http(s) URL, so isUrl is
\* false and loadFile runs.  A locator that is not an absolute path is resolved
\* against the working directory, where no file of the model lives.
load(fs, loc, out, now) ==
  IF isAbsolute(loc) /\ loc.path \in Files /\ out.kind # "loadfail"
    THEN [ ok |-> TRUE,
           resource |-> [ url           |-> FileUrl(loc.path),
                          type          |-> "file",
                          lastProcessed |-> now,
                          checksum      |-> fs[loc.path],
                          size          |-> SizeOf(fs[loc.path]),
                          mimeType      |-> lookup(loc.path) ] ]
    ELSE [ ok |-> FALSE, resource |-> << >> ]

\* -------------------------------------------------- DirectFeatureOrchestrator
Modes == {"minimal", "standard", "maximal"}

minimalFeatures ==
  { "text.content", "text.word_count", "text.line_count", "text.char_count",
    "directory.metadata", "directory.file_count", "directory.total_size",
    "directory.subdirectory_count" }

standardFeatures ==
  minimalFeatures \cup
  { "image.thumbnail.small", "image.thumbnail.medium", "image.dimensions",
    "image.format", "video.dimensions", "video.duration", "video.snapshot_50",
    "directory.subdirectory_count" }

shouldExtractIgnoringExisting(featureKey, mode, existingFeatureKeys, updateMissing) ==
  IF mode = "maximal" THEN TRUE
  ELSE IF mode = "minimal" THEN featureKey \in minimalFeatures
  ELSE featureKey \in standardFeatures

shouldExtractMaximalAsMinimal(featureKey, mode, existingFeatureKeys, updateMissing) ==
  IF updateMissing /\ featureKey \in existingFeatureKeys THEN FALSE
  ELSE IF mode = "standard" THEN featureKey \in standardFeatures
  ELSE featureKey \in minimalFeatures

shouldExtractFeature(featureKey, mode, existingFeatureKeys, updateMissing) ==
  IF updateMissing /\ featureKey \in existingFeatureKeys THEN FALSE
  ELSE IF mode = "maximal" THEN TRUE
  ELSE IF mode = "minimal" THEN featureKey \in minimalFeatures
  ELSE featureKey \in standardFeatures

\* A Feature object as the extractors build it
Feature(url, key, value, type, now, ttl, tool) ==
  [ url |-> url, key |-> key, value |-> value, type |-> type,
    generatedAt |-> now, ttl |-> ttl, expiresAt |-> now + ttl, tool |-> tool ]

\* features.map(f => ({key, value, type, ttl, extractorTool, metadata}))
featuresToStore(feats) ==
  [i \in 1..Len(feats) |->
     [ key |-> feats[i].key, value |-> feats[i].value, type |-> feats[i].type,
       ttl |-> feats[i].ttl, tool |-> feats[i].tool ]]

Range(seq) == {seq[i] : i \in 1..Len(seq)}

\* array.map(f)
map(array, f(_)) == [i \in 1..Len(array) |-> f(array[i])]

extractTextFeatures(tbl, resource, ttl, mode, existing, updateMissing, now) ==
  LET v == resource.checksum
      cand == << [key |-> "text.content",    value |-> Val("text", v, 0),  type |-> "text"],
                 [key |-> "text.word_count", value |-> Val("digits", v, 0), type |-> "number"],
                 [key |-> "text.line_count", value |-> Val("digits", v, 0), type |-> "number"],
                 [key |-> "text.char_count", value |-> Val("digits", v, 0), type |-> "number"] >>
      Keep(c) == shouldExtractFeature(c.key, mode, existing, updateMissing)
      AsFeature(c) == Feature(resource.url, c.key, c.value, c.type, now, ttl, "built-in")
  IN  [ table |-> tbl,
        threw |-> FALSE,
        features |-> map(SelectSeq(cand, Keep), AsFeature) ]

\* thumb.key.replace('_', '.'): the first underscore only
replaceFirstUnderscore(key) ==
  CASE key = "image.thumbnail_small"  -> "image.thumbnail.small"
    [] key = "image.thumbnail_medium" -> "image.thumbnail.medium"
    [] key = "image.thumbnail_large"  -> "image.thumbnail.large"
    [] OTHER -> key

extractImageFeatures(tbl, resource, ttl, mode, existing, updateMissing, now, out) ==
  LET v == resource.checksum
      thumbCand == << [check |-> "image.thumbnail.small",  key |-> "image.thumbnail_small",  maxOnly |-> FALSE],
                      [check |-> "image.thumbnail.medium", key |-> "image.thumbnail_medium", maxOnly |-> FALSE],
                      [check |-> "image.thumbnail.large",  key |-> "image.thumbnail_large",  maxOnly |-> TRUE] >>
      KeepThumb(c) == /\ shouldExtractFeature(c.check, mode, existing, updateMissing)
                      /\ (c.maxOnly => mode = "maximal")
      \* "Store actual image data in database": one storeFeatures call per thumbnail
      AsBinary(thumb) == [ key |-> thumb.key, value |-> Val("base64", v, 0),
                           type |-> "binary", ttl |-> ttl, tool |-> "built-in" ]
      AsUrl(thumb) == Feature(resource.url, replaceFirstUnderscore(thumb.key),
                              Val("url", v, 0), "text", now, ttl, "built-in")
      metaCand == << [key |-> "image.dimensions", value |-> JSONstringify(Val("object", v, 0)),
                      type |-> "json", maxOnly |-> FALSE],
                     [key |-> "image.format", value |-> Val("text", v, 0),
                      type |-> "text", maxOnly |-> FALSE],
                     [key |-> "image.dominant_colors", value |-> JSONstringify(Val("object", v, 0)),
                      type |-> "json", maxOnly |-> TRUE] >>
      KeepMeta(c) == /\ shouldExtractFeature(c.key, mode, existing, updateMissing)
                     /\ (c.maxOnly => mode = "maximal")
      AsFeature(c) == Feature(resource.url, c.key, c.value, c.type, now, ttl, "built-in")
  IN  IF out.kind = "fail"
        \* sharp throws before anything is written; the error is rethrown
        THEN [ table |-> tbl, threw |-> TRUE, features |-> << >> ]
        ELSE [ table |-> storeFeatures(tbl, resource.url,
                                       map(SelectSeq(thumbCand, KeepThumb), AsBinary), now),
               threw |-> FALSE,
               features |-> map(SelectSeq(thumbCand, KeepThumb), AsUrl) \o
                            map(SelectSeq(metaCand, KeepMeta), AsFeature) ]

Percentages == [i \in 1..10 |-> (i - 1) * 10]

snapshotKey(percentage) == "video.snapshot_" \o ToString(percentage)

percentagesToExtract(mode, existing, updateMissing) ==
  LET Keep(p) == shouldExtractFeature(snapshotKey(p), mode, existing, updateMissing)
  IN  IF mode = "minimal" THEN << >>
      ELSE IF mode = "standard" THEN SelectSeq(<< 50 >>, Keep)
      ELSE SelectSeq(Percentages, Keep)

Min(a, b) == IF a < b THEN a ELSE b

\* The percentages whose snapshot is written: all of them, or the ones before
\* the failure if there is one
written(percentages, out) ==
  SubSeq(percentages, 1,
         IF out.kind = "fail"
           THEN Min(out.k, IF Len(percentages) = 0 THEN 0 ELSE Len(percentages) - 1)
           ELSE Len(percentages))

\* What extractVideoFeatures hands to storeFeatures for the snapshot at one
\* percentage, right after ffmpeg has written it
snapshot(resource, ttl, percentage) ==
  [ key |-> snapshotKey(percentage), value |-> Val("base64", resource.checksum, 0),
    type |-> "binary", ttl |-> ttl, tool |-> "built-in" ]

extractVideoFeatures(tbl, resource, ttl, mode, existing, updateMissing, now, out) ==
  LET v == resource.checksum
      AsBinary(p) == snapshot(resource, ttl, p)
      AsUrl(p) == Feature(resource.url, snapshotKey(p), Val("url", v, 0),
                          "text", now, ttl, "built-in")
      metaCand == << [key |-> "video.dimensions", value |-> JSONstringify(Val("object", v, 0)),
                      type |-> "json"],
                     [key |-> "video.duration", value |-> Val("digits", v, 0),
                      type |-> "number"] >>
      KeepMeta(c) == shouldExtractFeature(c.key, mode, existing, updateMissing)
      AsFeature(c) == Feature(resource.url, c.key, c.value, c.type, now, ttl, "built-in")
  IN  IF out.kind = "noffmpeg"
        THEN [ table |-> tbl, threw |-> FALSE, features |-> << >> ]
      ELSE [ table |-> storeFeatures(tbl, resource.url,
                         map(written(percentagesToExtract(mode, existing, updateMissing),
                                     out), AsBinary), now),
             threw |-> FALSE,
             \* on a failure the catch block logs the error; the features array
             \* is still empty
             features |-> IF out.kind = "fail" THEN << >>
                          ELSE map(percentagesToExtract(mode, existing, updateMissing),
                                   AsUrl) \o
                               map(SelectSeq(metaCand, KeepMeta), AsFeature) ]

shouldIndexAlways(tbl, filePath, now) == TRUE

\* DirectoryIndexer.shouldIndexDirectory(filePath)
shouldIndexDirectory(tbl, filePath, now) ==
  LET existingFeatures == queryFeatures(tbl, QueryUrl(FileUrl(dirname(filePath))), now)
      validFeatures == {f \in Rows(existingFeatures) : f.expiresAt > now}
  IN  validFeatures = {}

\* The options of the background pass that extractFeatures starts
BackgroundTask(directory, opts) ==
  [ dir        |-> directory,
    recursive  |-> FALSE,
    extensions |-> {},
    maxFiles   |-> BackgroundMaxFiles,
    ttl        |-> IF opts.ttl = 0 THEN DefaultIndexTtl ELSE opts.ttl ]

\* options.mode || 'standard'
EffectiveMode(opts) == IF opts.mode = "" THEN "standard" ELSE opts.mode

anyChecksum(existingResource, resource) == existingResource # {}

\* existingResource && existingResource.checksum === resource.checksum
sameChecksum(existingResource, resource) ==
  \E r \in existingResource : r.checksum = resource.checksum

\* The branch of extractFeatures that a mime type takes
Class(mimeType) ==
  CASE mimeType = "image/png"  -> "image"
    [] mimeType = "video/mp4"  -> "video"
    [] mimeType = "text/plain" -> "text"
    [] OTHER -> "none"

\* The background pass extractFeatures starts for the directory of the file:
\* the set holding its options, or no pass at all
startedIndexing(tbl, loc, opts, now) ==
  IF /\ ~opts.skipDirectoryIndexing
     /\ (isAbsolute(loc) \/ loc.scheme = "file://")
     /\ shouldIndexDirectory(tbl, StripFileScheme(loc).path, now)
    THEN {BackgroundTask(dirname(StripFileScheme(loc).path), opts)}
    ELSE {}

UnprocessedRaisingForPass(db, started) ==
  [ resources |-> db.resources, features |-> db.features,
    pending |-> db.pending \cup started, indexStarted |-> started # {},
    url |-> NoUrl, checksum |-> -1, class |-> "none",
    loaded |-> FALSE, raised |-> started # {}, hit |-> FALSE,
    changed |-> FALSE, invoked |-> {}, completed |-> {},
    existing |-> {}, returned |-> {} ]

\* What a call of extractFeatures leaves and reports when it did nothing but
\* start the passes in started
Unprocessed(db, started) ==
  [ resources |-> db.resources, features |-> db.features,
    pending |-> db.pending \cup started, indexStarted |-> started # {},
    url |-> NoUrl, checksum |-> -1, class |-> "none",
    loaded |-> FALSE, raised |-> FALSE, hit |-> FALSE,
    changed |-> FALSE, invoked |-> {}, completed |-> {},
    existing |-> {}, returned |-> {} ]

\* The three built-in extractors, chosen by mime type
runExtractor(tbl, resource, opts, existingFeatureKeys, now, out) ==
  CASE Class(resource.mimeType) = "image" ->
         extractImageFeatures(tbl, resource,
                              IF opts.ttl = 0 THEN DefaultExtractTtl ELSE opts.ttl,
                              EffectiveMode(opts), existingFeatureKeys,
                              opts.updateMissing # "false", now, out)
    [] Class(resource.mimeType) = "video" ->
         extractVideoFeatures(tbl, resource,
                              IF opts.ttl = 0 THEN DefaultExtractTtl ELSE opts.ttl,
                              EffectiveMode(opts), existingFeatureKeys,
                              opts.updateMissing # "false", now, out)
    [] Class(resource.mimeType) = "text" ->
         extractTextFeatures(tbl, resource,
                             IF opts.ttl = 0 THEN DefaultExtractTtl ELSE opts.ttl,
                             EffectiveMode(opts), existingFeatureKeys,
                             opts.updateMissing # "false", now)
    [] OTHER -> [table |-> tbl, threw |-> FALSE, features |-> << >>]

\* The end of extractFeatures: ex is what the extractor did; a throw of the
\* extractor leaves the call, otherwise the features are stored and returned
storeExtracted(db, started, resource, changed, existingFeatureKeys, ex, out, now) ==
  [Unprocessed(db, started) EXCEPT
     !.loaded = TRUE,
     !.url = resource.url, !.checksum = resource.checksum,
     !.class = Class(resource.mimeType),
     !.resources = upsertResource(db.resources,
                                  [resource EXCEPT !.lastProcessed = now]),
     !.changed = changed,
     !.existing = existingFeatureKeys,
     !.invoked = IF Class(resource.mimeType) = "none"
                   THEN {} ELSE {Class(resource.mimeType)},
     !.completed = IF Class(resource.mimeType) = "none" \/ out.kind = "fail"
                     THEN {} ELSE {Class(resource.mimeType)},
     !.raised = ex.threw,
     !.features = IF ~ex.threw /\ Len(ex.features) > 0
                    THEN storeFeatures(ex.table, resource.url,
                                       featuresToStore(ex.features), now)
                    ELSE ex.table,
     !.returned = IF ex.threw THEN {} ELSE Range(ex.features)]

\* extractFeatures once the cache has been looked up: existingFeatures is what
\* the cache holds for an unchanged resource, empty when it was not consulted
extractOrReturn(db, started, resource, opts, changed, existingFeatures, out, now) ==
  IF opts.updateMissing # "true" /\ existingFeatures # EmptyBag
    THEN [Unprocessed(db, started) EXCEPT
            !.loaded = TRUE,
            !.url = resource.url, !.checksum = resource.checksum,
            !.class = Class(resource.mimeType), !.hit = TRUE,
            !.changed = changed,
            !.returned = Rows(existingFeatures)]
    ELSE storeExtracted(db, started, resource, changed,
                        {f.key : f \in Rows(existingFeatures)},
                        runExtractor(db.features, resource, opts,
                                     {f.key : f \in Rows(existingFeatures)}, now, out),
                        out, now)

\* extractFeatures once the resource has been loaded
checkExisting(db, started, loaded, opts, out, now) ==
  IF ~loaded.ok
    THEN [Unprocessed(db, started) EXCEPT !.raised = TRUE]
    ELSE extractOrReturn(db, started, loaded.resource, opts,
           \* the bytes are not the ones the resources table has on record
           \E r \in getResource(db.resources, loaded.resource.url) :
              r.checksum # loaded.resource.checksum,
           IF /\ ~opts.force
              /\ sameChecksum(getResource(db.resources, loaded.resource.url),
                              loaded.resource)
             THEN queryFeatures(db.features, QueryUrl(loaded.resource.url), now)
             ELSE EmptyBag,
           out, now)

\* extractFeatures(resourceUrl, options) of DirectFeatureOrchestrator.
\* db is [resources, features, pending]; the result carries the new tables, the
\* array returned (or raised = TRUE) and what the call did.
extractFeatures(db, fs, loc, opts, out, now) ==
  checkExisting(db, startedIndexing(db.features, loc, opts, now),
                load(fs, loc, out, now), opts, out, now)

\* ---------------------------------------------------------- DirectoryIndexer
\* getFilesInDirectory: scanDir and its loop over the entries.  "maxFiles &&"
\* makes a cap of 0 no cap.  A directory in unlistable makes readdir throw.
RECURSIVE scanDir(_, _, _, _, _, _)
RECURSIVE scanEntries(_, _, _, _, _, _)
scanDir(files, dir, recursive, extensions, maxFiles, unlistable) ==
  IF maxFiles # 0 /\ Len(files) >= maxFiles THEN files
  ELSE IF dir \in unlistable THEN files
  ELSE scanEntries(files, Entries(dir), recursive, extensions, maxFiles, unlistable)

scanEntries(files, entries, recursive, extensions, maxFiles, unlistable) ==
  IF entries = << >> THEN files
  ELSE IF maxFiles # 0 /\ Len(files) >= maxFiles THEN files
  ELSE LET entry == Head(entries)
           rest == Tail(entries)
       IN  IF entry.isDir /\ recursive
             THEN scanEntries(scanDir(files, entry.path, recursive, extensions,
                                      maxFiles, unlistable),
                              rest, recursive, extensions, maxFiles, unlistable)
           ELSE IF ~entry.isDir /\ (extensions = {} \/ extname(entry.path) \in extensions)
             THEN scanEntries(Append(files, entry.path), rest, recursive,
                              extensions, maxFiles, unlistable)
           ELSE scanEntries(files, rest, recursive, extensions, maxFiles, unlistable)

getFilesInDirectory(dirPath, recursive, extensions, maxFiles, unlistable) ==
  scanDir(<< >>, dirPath, recursive, extensions, maxFiles, unlistable)

\* storeDirectoryMetadata(directory, results, ttl)
storeDirectoryMetadata(db, directory, results, ttl, now) ==
  LET directoryUrl == FileUrl(directory)
      \* {indexedAt, fileCount, indexedCount, skippedCount, errorCount, files}:
      \* the three counts, written as one decimal number
      summary == Val("index", Len(results.indexed) + 10 * Len(results.skipped)
                              + 100 * Len(results.errors), 0)
  IN  [db EXCEPT
         !.resources = upsertResource(@,
                         [ url |-> directoryUrl, type |-> "directory",
                           lastProcessed |-> now, checksum |-> -1,
                           size |-> Len(results.indexed) + Len(results.skipped),
                           mimeType |-> "inode/directory" ]),
         !.features = storeFeatures(@, directoryUrl,
                         << [ key |-> "directory.index_metadata",
                              value |-> JSONstringify(summary), type |-> "json",
                              ttl |-> ttl, tool |-> "directory-indexer" ] >>, now)]

IndexExtractOptionsReindexing(ttl) ==
  [ mode |-> "", force |-> FALSE, updateMissing |-> "unset", ttl |-> ttl,
    skipDirectoryIndexing |-> FALSE ]

\* The options indexDirectory hands to extractFeatures for each file
IndexExtractOptions(ttl) ==
  [ mode |-> "", force |-> FALSE, updateMissing |-> "unset", ttl |-> ttl,
    skipDirectoryIndexing |-> TRUE ]

\* One task of indexDirectory: filePath is skipped when the cache holds a valid
\* feature of it; otherwise r, the outcome of extractFeatures, is taken up.
\* acc is [db, indexed, skipped, errors].
indexFile(acc, filePath, r, now) ==
  LET existingFeatures == queryFeatures(acc.db.features, QueryUrl(FileUrl(filePath)), now)
      validFeatures == {f \in Rows(existingFeatures) : f.expiresAt > now}
  IN  IF validFeatures # {}
        THEN [acc EXCEPT !.skipped = Append(@, filePath)]
      ELSE IF r.raised
        THEN [acc EXCEPT !.db = [resources |-> r.resources, features |-> r.features,
                                 pending |-> r.pending],
                         !.errors = Append(@, filePath)]
      ELSE [acc EXCEPT !.db = [resources |-> r.resources, features |-> r.features,
                               pending |-> r.pending],
                       !.indexed = Append(@, filePath)]

\* The tasks of indexDirectory, one per listed file, run in listing order
RECURSIVE indexFiles(_, _, _, _, _, _)
indexFiles(acc, fs, files, ttl, outs, now) ==
  IF files = << >> THEN acc
  ELSE indexFiles(indexFile(acc, Head(files),
                            extractFeatures(acc.db, fs, Plain(Head(files)),
                                            IndexExtractOptions(ttl),
                                            outs[Head(files)], now),
                            now),
                  fs, Tail(files), ttl, outs, now)

\* The end of indexDirectory: the metadata of the pass is stored and the
\* results are returned
indexResults(directory, files, done, ttl, now) ==
  [ db      |-> storeDirectoryMetadata(done.db, directory,
                  [indexed |-> done.indexed, skipped |-> done.skipped,
                   errors |-> done.errors], ttl, now),
    files   |-> files,
    results |-> [indexed |-> done.indexed, skipped |-> done.skipped,
                 errors |-> done.errors] ]

\* indexDirectory once the directory has been listed
indexListed(db, fs, directory, files, ttl, outs, now) ==
  indexResults(directory, files,
               indexFiles([db |-> db, indexed |-> << >>, skipped |-> << >>,
                           errors |-> << >>], fs, files, ttl, outs, now),
               ttl, now)

\* indexDirectory(directoryPath, options); maxFiles = -1 and ttl = -1 stand for
\* an option that is not given.
indexDirectory(db, fs, task, outs, unlistable, now) ==
  indexListed(db, fs, task.dir,
              getFilesInDirectory(task.dir, task.recursive, task.extensions,
                                  IF task.maxFiles = -1 THEN DefaultMaxFiles
                                                        ELSE task.maxFiles,
                                  unlistable),
              IF task.ttl = -1 THEN DefaultIndexTtl ELSE task.ttl, outs, now)

\* The files a listing of task.dir holds when nothing caps it
RECURSIVE EligibleIn(_, _, _, _)
EligibleIn(dir, recursive, extensions, unlistable) ==
  LET es == Range(Entries(dir))
      Listed(e) == ~e.isDir /\ (extensions = {} \/ extname(e.path) \in extensions)
  IN  IF dir \in unlistable THEN {}
      ELSE {e.path : e \in {x \in es : Listed(x)}}
             \cup (IF recursive
                     THEN UNION {EligibleIn(e.path, TRUE, extensions, unlistable) :
                                   e \in {x \in es : x.isDir}}
                     ELSE {})

\* ------------------------------------------------------------------ inputs
TtlOptions == {0, 1}

ExtractOptions ==
  [ mode : Modes, force : BOOLEAN, updateMissing : {"unset", "true"},
    ttl : TtlOptions, skipDirectoryIndexing : {FALSE} ]

Outcomes(path) ==
  {Out("ok", 0), Out("loadfail", 0)}
    \cup (IF lookup(path) = "image/png" THEN {Out("fail", 0)} ELSE {})
    \cup (IF lookup(path) = "video/mp4"
            THEN {Out("noffmpeg", 0), Out("fail", 0), Out("fail", 1)} ELSE {})

\* The files a pass over dir can reach
RECURSIVE FilesUnder(_, _)
FilesUnder(dir, recursive) ==
  LET es == Range(Entries(dir))
  IN  {e.path : e \in {x \in es : ~x.isDir}}
        \cup (IF recursive
                THEN UNION {FilesUnder(e.path, TRUE) : e \in {x \in es : x.isDir}}
                ELSE {})

\* One outcome for each file a pass can reach; the other files are not touched
OutcomeMaps(reach) ==
  {[f \in Files |-> IF f \in reach THEN m[f] ELSE Out("ok", 0)] :
     m \in [reach -> {Out("ok", 0), Out("loadfail", 0), Out("fail", 0)}]}

QueryParams ==
  [ url : {NoUrl} \cup {FileUrl(f) : f \in Files},
    featureKeys : {{}, {"text.content", "image.format", "video.duration"}},
    extractors : {{}},
    includeExpired : BOOLEAN ]

UpdateKeys == {"text.content", "image.format", "video.duration"}
UpdateTtls == {2}

DB == [resources |-> resources, features |-> features, pending |-> pending]

\* The files the cache knows or is about to index
Tracked ==
  {r.url.path : r \in {x \in resources : x.type = "file"}}
    \cup UNION {FilesUnder(t.dir, t.recursive) : t \in pending}

NoOptions == [ mode |-> "", force |-> FALSE, updateMissing |-> "unset", ttl |-> 0,
               skipDirectoryIndexing |-> FALSE ]

Quiet == [ op |-> "init", path |-> "", opts |-> NoOptions, loaded |-> FALSE,
           raised |-> FALSE,
           hit |-> FALSE, changed |-> FALSE, invoked |-> {}, completed |-> {},
           returned |-> {} ]

\* What a call of indexDirectory was asked and what it returned
IndexReport(task, unlistable, r) ==
  [ op |-> "indexDirectory", path |-> task.dir, maxFiles |-> task.maxFiles,
    recursive |-> task.recursive, unlistable |-> unlistable,
    eligible |-> EligibleIn(task.dir, task.recursive, task.extensions, unlistable),
    results |-> r.results ]

\* ----------------------------------------------------------------- actions
\* An operation that runs from its call to its return with nothing in between
Step == steps < MaxSteps /\ steps' = steps + 1 /\ UNCHANGED inFlight

Init ==
  /\ clock = 0
  /\ content = [f \in Files |-> 0]
  /\ resources = {}
  /\ features = EmptyBag
  /\ pending = {}
  /\ last = Quiet
  /\ steps = 0
  /\ inFlight = EmptyBag

\* A second passes
Ticked ==
  /\ clock < MaxTime
  /\ clock' = clock + 1
  /\ last' = [Quiet EXCEPT !.op = "tick"]
  /\ UNCHANGED << content, resources, features, pending >>

Tick == Step /\ Ticked

\* Somebody rewrites a file the cache knows
Modified(path) ==
  /\ path \in Tracked
  /\ content[path] < MaxVersion
  /\ content' = [content EXCEPT ![path] = @ + 1]
  /\ last' = [Quiet EXCEPT !.op = "modify", !.path = path]
  /\ UNCHANGED << clock, resources, features, pending >>

Modify(path) == Step /\ Modified(path)

\* orchestrator.extractFeatures(resourceUrl, options), as the extract tool or a
\* script calls it
Extracted(path, opts, out) ==
  /\ path \in Tracked \/ Cardinality(Tracked) < MaxResources
  /\ \E r \in {extractFeatures(DB, content, Plain(path), opts, out, clock)} :
      /\ resources' = r.resources
      /\ features' = r.features
      /\ pending' = r.pending
      /\ last' = [ op |-> "extract", path |-> path, opts |-> opts,
                   loaded |-> r.loaded, raised |-> r.raised,
                   hit |-> r.hit, changed |-> r.changed, invoked |-> r.invoked,
                   completed |-> r.completed, returned |-> r.returned ]
      /\ UNCHANGED << clock, content >>

Extract(path, opts, out) == Step /\ Extracted(path, opts, out)

\* The pass started by extractFeatures runs: indexDirectory(directory, options)
BackgroundIndexed(task, outs, unlistable) ==
  /\ task \in pending
  /\ \E r \in {indexDirectory([DB EXCEPT !.pending = @ \ {task}], content, task,
                              outs, unlistable, clock)} :
         /\ resources' = r.db.resources
         /\ features' = r.db.features
         /\ pending' = r.db.pending
         /\ last' = IndexReport(task, unlistable, r)
  /\ UNCHANGED << clock, content >>

RunBackgroundIndex(task, outs, unlistable) ==
  Step /\ BackgroundIndexed(task, outs, unlistable)

\* The query tool: db.queryFeatures(params)
Queried(params) ==
  /\ last' = [Quiet EXCEPT !.op = "query",
                           !.returned = Rows(queryFeatures(features, params, clock))]
  /\ UNCHANGED << clock, content, resources, features, pending >>

Query(params) == Step /\ Queried(params)

\* The update_ttl tool: db.updateTTL(resourceUrl, featureKey, ttl)
UpdateTTL(resourceUrl, featureKey, ttl) ==
  LET r == updateTTLRows(features, resourceUrl, featureKey, ttl, clock)
  IN  /\ Step
      /\ features' = r.table
      /\ last' = [ op |-> "updateTTL", path |-> resourceUrl.path,
                   key |-> featureKey, ttl |-> ttl,
                   raised |-> (r.changes = 0) ]
      /\ UNCHANGED << clock, content, resources, pending >>

\* The periodic cleanup: db.cleanExpiredFeatures()
Sweep ==
  LET r == cleanExpiredFeatures(features, clock)
  IN  /\ Step
      /\ features' = r.table
      /\ last' = [Quiet EXCEPT !.op = "sweep", !.returned = {r.changes}]
      /\ UNCHANGED << clock, content, resources, pending >>

Next ==
  \/ Tick
  \/ \E path \in Files : Modify(path)
  \/ \E path \in Files, opts \in ExtractOptions :
       \E out \in Outcomes(path) : Extract(path, opts, out)
  \/ \E task \in pending :
       \E outs \in OutcomeMaps(FilesUnder(task.dir, task.recursive)),
          unlistable \in {{}, {task.dir}} :
         RunBackgroundIndex(task, outs, unlistable)
  \/ \E params \in QueryParams : Query(params)
  \/ \E path \in Files, featureKey \in UpdateKeys, ttl \in UpdateTtls :
       UpdateTTL(FileUrl(path), featureKey, ttl)
  \/ Sweep

Spec == Init /\ [][Next]_vars

\* ---------------------------------------------- the indexer called directly
IndexTasks ==
  [ dir : {"/d"}, recursive : BOOLEAN, extensions : {{}, {".png", ".mp4"}},
    maxFiles : {-1} \cup 0..MaxFilesOpt, ttl : {-1} ]

IndexOutcomeMaps ==
  {[f \in Files |-> IF f \in failing THEN Out("loadfail", 0) ELSE Out("ok", 0)] :
     failing \in SUBSET Files}

\* indexer.indexDirectory(directoryPath, options)
IndexDirectory(task, outs, unlistable) ==
  /\ Step
  /\ \E r \in {indexDirectory(DB, content, task, outs, unlistable, clock)} :
      /\ resources' = r.db.resources
      /\ features' = r.db.features
      /\ pending' = r.db.pending
      /\ last' = IndexReport(task, unlistable, r)
      /\ UNCHANGED << clock, content >>

NextIndex ==
  \/ Tick
  \/ \E path \in Files : Modify(path)
  \/ \E task \in IndexTasks, outs \in IndexOutcomeMaps,
        unlistable \in {{}, {"/d/s/t"}} :
       IndexDirectory(task, outs, unlistable)

SpecIndex == Init /\ [][NextIndex]_vars

\* ------------------------------------------------------- FeatureOrchestrator
\* The rows of extractor_registry that init-db inserts, enabled, filtered by
\* capability, ORDER BY priority ASC, tool_name ASC
getExtractors(mimeType) ==
  CASE mimeType = "text/plain" -> << "extract_text_features", "generate_embeddings" >>
    [] mimeType = "image/png"  -> << "extract_image_features" >>
    [] OTHER                   -> << >>

findExtractors(mimeType, requestedExtractors) ==
  LET Requested(e) == e \in requestedExtractors
  IN  IF requestedExtractors # {}
        THEN SelectSeq(getExtractors(mimeType), Requested)
        ELSE getExtractors(mimeType)

encodeValue(value, type) ==
  IF type \in {"binary", "embedding"} THEN value
  ELSE IF type = "json" THEN JSONstringify(value)
  ELSE String(value)

\* response.features of a tools/call: what the tool sends for content version v
Response(toolName, v, outcome) ==
  IF outcome = "empty" THEN << >>
  ELSE CASE toolName = "extract_text_features" ->
              << [key |-> "text.content", value |-> Val("text", v, 0), type |-> "text", ttl |-> 0],
                 [key |-> "text.word_count", value |-> Val("number", v, 0), type |-> "number", ttl |-> 0] >>
         [] toolName = "generate_embeddings" ->
              << [key |-> "embedding.vector", value |-> Val("base64", v, 0), type |-> "embedding", ttl |-> 0] >>
         [] OTHER ->
              << [key |-> "image.dimensions", value |-> Val("object", v, 0), type |-> "json", ttl |-> 0] >>

callExtractor(toolName, resource, ttl, outcome, now) ==
  LET response == Response(toolName, resource.checksum, outcome)
      Ttl(f) == IF f.ttl # 0 THEN f.ttl ELSE IF ttl # 0 THEN ttl ELSE McpDefaultTtl
  IN  [ threw |-> outcome = "fail",
        features |-> IF outcome = "fail" THEN << >>
                     ELSE [i \in 1..Len(response) |->
                             Feature(resource.url, response[i].key,
                                     encodeValue(response[i].value, response[i].type),
                                     response[i].type, now, Ttl(response[i]), toolName)] ]

RECURSIVE Concat(_)
Concat(seqs) == IF seqs = << >> THEN << >> ELSE Head(seqs) \o Concat(Tail(seqs))

\* extractFeatures(resourceUrl, options) of FeatureOrchestrator: the locator as
\* given is the key of the resource and of its features.
mcpExtractFeatures(db, fs, loc, opts, loadOut, outs, now) ==
  LET loaded == load(fs, loc, loadOut, now)
      resource == loaded.resource
      existingResource == getResource(db.resources, loc)
      existingFeatures ==
        IF ~opts.force /\ sameChecksum(existingResource, resource)
          THEN queryFeatures(db.features, QueryUrl(loc), now)
          ELSE EmptyBag
      resources1 == upsertResource(db.resources,
                      [resource EXCEPT !.url = loc, !.lastProcessed = now])
      extractors == findExtractors(resource.mimeType, opts.extractors)
      results == [i \in 1..Len(extractors) |->
                    callExtractor(extractors[i], resource, opts.ttl, outs[extractors[i]], now)]
      allFeatures == Concat([i \in 1..Len(results) |-> results[i].features])
      errors == {i \in 1..Len(results) : results[i].threw}
      stored == IF Len(allFeatures) > 0
                  THEN storeFeatures(db.features, loc, featuresToStore(allFeatures), now)
                  ELSE db.features
      base == [ resources |-> db.resources, features |-> db.features,
                loaded |-> loaded.ok,
                raised |-> FALSE, hit |-> FALSE, invoked |-> {}, completed |-> {},
                returned |-> {} ]
  IN  IF ~loaded.ok
        THEN [base EXCEPT !.raised = TRUE]
      ELSE IF existingFeatures # EmptyBag
        THEN [base EXCEPT !.hit = TRUE, !.returned = Rows(existingFeatures)]
      ELSE [base EXCEPT
              !.resources = resources1,
              !.features = stored,
              !.invoked = Range(extractors),
              !.completed = {extractors[i] : i \in (1..Len(results)) \ errors},
              !.raised = (Len(allFeatures) = 0 /\ errors # {}),
              !.returned = IF Len(allFeatures) = 0 /\ errors # {}
                             THEN {} ELSE Range(allFeatures)]

McpExtractOptions ==
  [ force : BOOLEAN, ttl : TtlOptions, extractors : {{}, {"extract_text_features"}} ]

Tools == {"extract_text_features", "generate_embeddings", "extract_image_features"}

\* The extract tool of the server that calls MCP extractors
McpExtract(path, opts, loadOut, outs) ==
  /\ Step
  /\ path \in Tracked \/ Cardinality(Tracked) < MaxResources
  /\ \E r \in {mcpExtractFeatures(DB, content, Plain(path), opts, loadOut, outs, clock)} :
      /\ resources' = r.resources
      /\ features' = r.features
      /\ last' = [ op |-> "mcpExtract", path |-> path, opts |-> opts,
                   loaded |-> r.loaded, raised |-> r.raised, hit |-> r.hit, changed |-> FALSE,
                   invoked |-> r.invoked, completed |-> r.completed,
                   returned |-> r.returned ]
      /\ UNCHANGED << clock, content, pending >>

NextMcp ==
  \/ Tick
  \/ \E path \in Files : Modify(path)
  \/ \E path \in Files, opts \in McpExtractOptions :
       \E loadOut \in {Out("ok", 0), Out("loadfail", 0)},
          outs \in [Tools -> {"ok", "empty", "fail"}] :
         McpExtract(path, opts, loadOut, outs)
  \/ Sweep

SpecMcp == Init /\ [][NextMcp]_vars

\* ------------------------------------------------- the selection of the keys
\* The keys one run of the extractor of path's class writes or returns
SelectedKeys(path, mode, existing, updateMissing) ==
  LET resource == load([f \in Files |-> 0], Plain(path), Out("ok", 0), 0).resource
      ex == CASE lookup(path) = "image/png" ->
                   extractImageFeatures(EmptyBag, resource, 1, mode, existing,
                                        updateMissing, 0, Out("ok", 0))
              [] lookup(path) = "video/mp4" ->
                   extractVideoFeatures(EmptyBag, resource, 1, mode, existing,
                                        updateMissing, 0, Out("ok", 0))
              [] OTHER ->
                   extractTextFeatures(EmptyBag, resource, 1, mode, existing,
                                       updateMissing, 0)
  IN  {r.key : r \in Rows(ex.table)} \cup {f.key : f \in Range(ex.features)}

\* The keys of the features one run of the extractor of path's class returns
ReturnedKeys(path, mode, existing, updateMissing) ==
  LET resource == load([f \in Files |-> 0], Plain(path), Out("ok", 0), 0).resource
      ex == CASE lookup(path) = "image/png" ->
                   extractImageFeatures(EmptyBag, resource, 1, mode, existing,
                                        updateMissing, 0, Out("ok", 0))
              [] lookup(path) = "video/mp4" ->
                   extractVideoFeatures(EmptyBag, resource, 1, mode, existing,
                                        updateMissing, 0, Out("ok", 0))
              [] OTHER ->
                   extractTextFeatures(EmptyBag, resource, 1, mode, existing,
                                       updateMissing, 0)
  IN  {f.key : f \in Range(ex.features)}

\* Every key the extractor of path's class can write or return
ClassKeys(path) == SelectedKeys(path, "maximal", {}, FALSE)

InitSelect ==
  /\ clock = 0
  /\ content = [f \in Files |-> 0]
  /\ resources = {}
  /\ features = EmptyBag
  /\ pending = {}
  /\ steps = 0
  /\ inFlight = EmptyBag
  /\ \E path \in Files, updateMissing \in BOOLEAN :
       \E existing \in SUBSET ClassKeys(path) :
         last = [ op |-> "select", path |-> path, existing |-> existing,
                  updateMissing |-> updateMissing ]

Select ==
  /\ Step
  /\ last.op = "select"
  /\ last' = [ op |-> "selected", path |-> last.path, existing |-> last.existing,
               updateMissing |-> last.updateMissing,
               keys |-> [m \in Modes |->
                           SelectedKeys(last.path, m, last.existing, last.updateMissing)] ]
  /\ UNCHANGED << clock, content, resources, features, pending >>

NextSelect == Select

SpecSelect == InitSelect /\ [][NextSelect]_vars

\* ------------------------------------------------------ extractFeaturesStream
\* A StreamUpdate: its type and, for the update of one extractor, the extractor
Update(type, extractor) == [type |-> type, extractor |-> extractor]

\* One turn of the loop over the extractors of FeatureOrchestrator's stream;
\* acc is [features, events] and r what callExtractor did
streamExtractor(acc, toolName, loc, r, now) ==
  IF r.threw
    THEN [acc EXCEPT !.events = @ \o << Update("extraction_started", toolName),
                                        Update("extraction_error", toolName) >>]
    ELSE [ features |-> storeFeatures(acc.features, loc, featuresToStore(r.features), now),
           events   |-> acc.events \o << Update("extraction_started", toolName),
                                         Update("feature_extracted", toolName) >> ]

RECURSIVE streamExtractors(_, _, _, _, _, _, _)
streamExtractors(acc, extractors, resource, loc, ttl, outs, now) ==
  IF extractors = << >> THEN acc
  ELSE streamExtractors(
         streamExtractor(acc, Head(extractors), loc,
                         callExtractor(Head(extractors), resource, ttl,
                                       outs[Head(extractors)], now),
                         now),
         Tail(extractors), resource, loc, ttl, outs, now)

\* The end of the stream of FeatureOrchestrator when nothing was thrown
\* outside the loop
streamComplete(tbl, acc) ==
  [ resources |-> tbl, features |-> acc.features,
    events |-> Append(acc.events, Update("extraction_complete", "")) ]

\* The stream of FeatureOrchestrator once load has returned or thrown
streamLoaded(db, loc, opts, loaded, outs, now) ==
  IF ~loaded.ok
    THEN [ resources |-> db.resources, features |-> db.features,
           events |-> << Update("extraction_started", ""),
                         Update("extraction_error", "") >> ]
    ELSE streamComplete(
           upsertResource(db.resources,
                          [loaded.resource EXCEPT !.url = loc, !.lastProcessed = now]),
           streamExtractors([ features |-> db.features,
                              events |-> << Update("extraction_started", "") >> ],
                            findExtractors(loaded.resource.mimeType, opts.extractors),
                            loaded.resource, loc, opts.ttl, outs, now))

\* extractFeaturesStream(resourceUrl, options) of FeatureOrchestrator
mcpExtractFeaturesStream(db, fs, loc, opts, loadOut, outs, now) ==
  streamLoaded(db, loc, opts, load(fs, loc, loadOut, now), outs, now)

\* The updates DirectFeatureOrchestrator's stream yields around r, the outcome
\* of its call of extractFeatures
directUpdates(r) ==
  << Update("extraction_started", "") >> \o
  (IF r.raised
     THEN << Update("extraction_error", "") >>
     ELSE << Update("feature_extracted", "built-in"),
             Update("extraction_complete", "") >>)

\* The streaming extract of the server that calls MCP extractors
McpExtractStream(path, opts, loadOut, outs) ==
  /\ Step
  /\ \E r \in {mcpExtractFeaturesStream(DB, content, Plain(path), opts, loadOut,
                                        outs, clock)} :
       /\ resources' = r.resources
       /\ features' = r.features
       /\ last' = [ op |-> "stream", path |-> path, events |-> r.events ]
  /\ UNCHANGED << clock, content, pending >>

\* extractFeaturesStream(resourceUrl, options) of DirectFeatureOrchestrator
ExtractStream(path, opts, out) ==
  /\ Step
  /\ \E r \in {extractFeatures(DB, content, Plain(path), opts, out, clock)} :
       /\ resources' = r.resources
       /\ features' = r.features
       /\ pending' = r.pending
       /\ last' = [ op |-> "stream", path |-> path, events |-> directUpdates(r) ]
  /\ UNCHANGED << clock, content >>

\* The streaming extract of either orchestrator
NextStream ==
  \/ Tick
  \/ \E path \in Files, opts \in {o \in McpExtractOptions : ~o.force} :
       \E loadOut \in {Out("ok", 0), Out("loadfail", 0)},
          outs \in [Tools -> {"ok", "empty", "fail"}] :
         McpExtractStream(path, opts, loadOut, outs)
  \/ \E path \in Files, opts \in {o \in ExtractOptions : o.mode = "standard" /\ o.ttl = 0} :
       \E out \in Outcomes(path) : ExtractStream(path, opts, out)

SpecStream == Init /\ [][NextStream]_vars

\* ------------------------------------ the stream after the batch of a file
\* What the extractors answer here: all of them alike
RefineOuts == {[t \in Tools |-> o] : o \in {"ok", "empty", "fail"}}

RefineOptions == {o \in McpExtractOptions : o.ttl = 0 /\ o.extractors = {}}

\* The two extracts of FeatureOrchestrator on the same cache
NextRefine ==
  \/ Tick
  \/ \E path \in Files : Modify(path)
  \/ \E path \in Files, opts \in RefineOptions :
       \E loadOut \in {Out("ok", 0), Out("loadfail", 0)}, outs \in RefineOuts :
         McpExtract(path, opts, loadOut, outs)
  \/ \E path \in Files, opts \in RefineOptions :
       \E loadOut \in {Out("ok", 0), Out("loadfail", 0)}, outs \in RefineOuts :
         McpExtractStream(path, opts, loadOut, outs)

SpecRefine == Init /\ [][NextRefine]_vars

\* ------------------------------------------- extract called on a directory too
\* The locators of the extract tool here: the files and the directories
NextDir ==
  \/ Tick
  \/ \E path \in Files \cup Dirs,
        opts \in {o \in ExtractOptions : o.updateMissing = "unset" /\ o.ttl = 0} :
       Extract(path, opts, Out("ok", 0))
  \/ \E task \in pending :
       \E outs \in OutcomeMaps({}), unlistable \in {{}} :
         RunBackgroundIndex(task, outs, unlistable)

SpecDir == Init /\ [][NextDir]_vars

\* ------------------------------------- extractFeatures with its awaits visible
\* extractFeatures awaits its extractor, and indexDirectory is started without
\* being awaited, so other calls run between the start of an extractor and the
\* storing of what it produced.
\* A call whose extractor runs: what it loaded and found before the extractor
\* started, and the directory of the pass that made it ("" for a caller)
Running(path, opts, out, resource, existing, by) ==
  [ kind |-> "extract", path |-> path, opts |-> opts, out |-> out,
    resource |-> resource, existing |-> existing, by |-> by,
    \* the snapshots of a video the call has stored so far
    done |-> 0 ]

\* A pass of indexDirectory that waits for the calls it made
Pass(task, results) == [kind |-> "pass", task |-> task, results |-> results]

Add(bag, e) == bag (+) SetToBag({e})
Remove(bag, e) == bag (-) SetToBag({e})

\* The calls in flight that extract the file at path
InFlightOf(path) ==
  LET Extracts(x) == x.kind = "extract" /\ x.path = path
  IN  BagCardinality(Filter(inFlight, Extracts))

\* The extractors that wait for work done outside the event loop (sharp,
\* ffmpeg): other calls run while they wait.  extractTextFeatures awaits
\* nothing, so a call on a text file goes from its load to its return in one
\* piece.
Awaits(mimeType) == Class(mimeType) \in {"image", "video"}

\* A call that has returned r stopped at its extractor on the way
Suspends(path, r) == r.loaded /\ ~r.hit /\ Awaits(lookup(path))

\* extractFeatures up to the call of its extractor: the pass for the directory
\* is started, the resource loaded, the cache consulted and the resource
\* saved.  The call returns here when the load fails, the cache answers or
\* the extractor awaits nothing.
Began(path, opts, out) ==
  /\ path \in Tracked \/ Cardinality(Tracked) < MaxResources
  /\ \E r \in {extractFeatures(DB, content, Plain(path), opts, out, clock)} :
       /\ pending' = r.pending
       /\ resources' = r.resources
       /\ features' = IF Suspends(path, r) THEN features ELSE r.features
       /\ inFlight' = IF Suspends(path, r)
                        THEN Add(inFlight,
                                 Running(path, opts, out,
                                         load(content, Plain(path), out, clock).resource,
                                         r.existing, ""))
                        ELSE inFlight
       /\ last' = [ op |-> "beginExtract", path |-> path,
                    returned |-> ~Suspends(path, r) ]
  /\ UNCHANGED << clock, content >>

BeginExtract(path, opts, out) ==
  steps < MaxSteps /\ steps' = steps + 1 /\ Began(path, opts, out)

\* The extractor of a call in flight returns: the call stores the features and
\* returns, or raises; a pass that made the call notes the file
Ended(x) ==
  /\ x \in DOMAIN inFlight /\ x.kind = "extract"
  /\ \E ex \in {runExtractor(features, x.resource, x.opts, x.existing, clock, x.out)} :
       /\ features' = IF ~ex.threw /\ Len(ex.features) > 0
                        THEN storeFeatures(ex.table, x.resource.url,
                                           featuresToStore(ex.features), clock)
                        ELSE ex.table
       /\ inFlight' =
            IF x.by = "" THEN Remove(inFlight, x)
            ELSE LET p == CHOOSE y \in DOMAIN inFlight :
                            y.kind = "pass" /\ y.task.dir = x.by
                     noted == IF ex.threw
                                THEN [p.results EXCEPT !.errors = Append(@, x.path)]
                                ELSE [p.results EXCEPT !.indexed = Append(@, x.path)]
                 IN  Add(Remove(Remove(inFlight, x), p), Pass(p.task, noted))
       /\ last' = [ op |-> "endExtract", path |-> x.path, raised |-> ex.threw ]
  /\ UNCHANGED << clock, content, resources, pending >>

EndExtract(x) == steps < MaxSteps /\ steps' = steps + 1 /\ Ended(x)

startFileSkippedAndIndexed(acc, filePath, ttl, out, loaded, r, valid, directory) ==
  IF valid # {}
    THEN [acc EXCEPT !.results.skipped = Append(@, filePath),
                     !.results.indexed = Append(@, filePath)]
  ELSE IF ~r.loaded
    THEN [acc EXCEPT !.results.errors = Append(@, filePath)]
  ELSE IF ~Suspends(filePath, r)
    THEN [acc EXCEPT !.resources = r.resources, !.features = r.features,
                     !.results.indexed = Append(@, filePath)]
  ELSE [acc EXCEPT !.resources = r.resources,
                   !.calls = Append(@, Running(filePath, IndexExtractOptions(ttl), out,
                                               loaded.resource, r.existing, directory))]

\* The tasks of a pass up to the extractors of their calls; acc is
\* [resources, features, calls, results, directory]
RECURSIVE startFiles(_, _, _, _, _, _)
startFile(acc, filePath, ttl, out, loaded, r, valid, directory) ==
  IF valid # {}
    THEN [acc EXCEPT !.results.skipped = Append(@, filePath)]
  ELSE IF ~r.loaded
    THEN [acc EXCEPT !.results.errors = Append(@, filePath)]
  ELSE IF ~Suspends(filePath, r)
    THEN [acc EXCEPT !.resources = r.resources, !.features = r.features,
                     !.results.indexed = Append(@, filePath)]
  ELSE [acc EXCEPT !.resources = r.resources,
                   !.calls = Append(@, Running(filePath, IndexExtractOptions(ttl), out,
                                               loaded.resource, r.existing, directory))]

startFiles(acc, fs, files, ttl, outs, now) ==
  IF files = << >> THEN acc
  ELSE startFiles(
         startFile(acc, Head(files), ttl, outs[Head(files)],
                   load(fs, Plain(Head(files)), outs[Head(files)], now),
                   extractFeatures([resources |-> acc.resources,
                                    features |-> acc.features, pending |-> {}],
                                   fs, Plain(Head(files)), IndexExtractOptions(ttl),
                                   outs[Head(files)], now),
                   {f \in Rows(queryFeatures(acc.features,
                                             QueryUrl(FileUrl(Head(files))), now)) :
                      f.expiresAt > now},
                   acc.directory),
         fs, Tail(files), ttl, outs, now)

RECURSIVE AddAll(_, _)
AddAll(bag, calls) ==
  IF calls = << >> THEN bag ELSE AddAll(Add(bag, Head(calls)), Tail(calls))

\* A pass started by extractFeatures begins: it lists the directory and starts
\* the tasks of the files, which run up to their extractors
PassBegan(task, outs) ==
  /\ task \in pending
  /\ \A y \in DOMAIN inFlight : y.kind = "pass" => y.task.dir # task.dir
  /\ \E acc \in {startFiles([ resources |-> resources, features |-> features,
                              calls |-> << >>,
                              results |-> [indexed |-> << >>, skipped |-> << >>,
                                           errors |-> << >>],
                              directory |-> task.dir ],
                            content,
                            getFilesInDirectory(task.dir, task.recursive,
                                                task.extensions, task.maxFiles, {}),
                            task.ttl, outs, clock)} :
       /\ resources' = acc.resources
       /\ features' = acc.features
       /\ inFlight' = Add(AddAll(inFlight, acc.calls), Pass(task, acc.results))
       /\ last' = [ op |-> "beginIndex", path |-> task.dir,
                    started |-> Len(acc.calls) ]
  /\ pending' = pending \ {task}
  /\ UNCHANGED << clock, content >>

BeginIndex(task, outs) ==
  steps < MaxSteps /\ steps' = steps + 1 /\ PassBegan(task, outs)

\* The calls of a pass have returned: it stores the metadata of the directory
PassEnded(p) ==
  /\ p \in DOMAIN inFlight /\ p.kind = "pass"
  /\ \A y \in DOMAIN inFlight : y.kind = "extract" => y.by # p.task.dir
  /\ \E db \in {storeDirectoryMetadata(DB, p.task.dir, p.results, p.task.ttl, clock)} :
       /\ resources' = db.resources
       /\ features' = db.features
  /\ inFlight' = Remove(inFlight, p)
  /\ last' = [ op |-> "indexDirectory", path |-> p.task.dir, task |-> p.task,
               results |-> p.results ]
  /\ UNCHANGED << clock, content, pending >>

EndIndex(p) == steps < MaxSteps /\ steps' = steps + 1 /\ PassEnded(p)

NextFlight ==
  \/ Tick
  \/ \E path \in Files,
        opts \in {o \in ExtractOptions : o.mode = "standard" /\ o.ttl = 0} :
       \E out \in Outcomes(path) : BeginExtract(path, opts, out)
  \/ \E x \in DOMAIN inFlight : EndExtract(x)
  \/ \E task \in pending :
       \E outs \in OutcomeMaps(FilesUnder(task.dir, task.recursive)) :
         BeginIndex(task, outs)
  \/ \E p \in DOMAIN inFlight : EndIndex(p)

SpecFlight == Init /\ [][NextFlight]_vars

\* --------------------------------------------- a pass and the calls around it
\* The passes that calls of extractFeatures start, with the calls of the
\* passes and of other callers under way at the same time
NextPass ==
  \/ \E path \in Files, opts \in {o \in ExtractOptions : o.mode = "standard" /\ o.ttl = 0
                                    /\ o.updateMissing = "unset" /\ ~o.force} :
       \E out \in Outcomes(path) :
         /\ steps < MaxPassSteps /\ steps' = steps + 1
         /\ Began(path, opts, out)
  \/ \E x \in DOMAIN inFlight :
       /\ steps < MaxPassSteps /\ steps' = steps + 1
       /\ Ended(x)
  \/ \E task \in pending :
       \E outs \in OutcomeMaps(FilesUnder(task.dir, task.recursive)) :
         /\ steps < MaxPassSteps /\ steps' = steps + 1
         /\ PassBegan(task, outs)
  \/ \E p \in DOMAIN inFlight :
       /\ steps < MaxPassSteps /\ steps' = steps + 1
       /\ PassEnded(p)

SpecPass == Init /\ [][NextPass]_vars

\* ------------------------------------ calls that overlap while files change
\* Callers of extractFeatures whose calls overlap, and a file that is rewritten
\* between the load of one call and the load of the next
RaceOptions ==
  {o \in ExtractOptions : o.mode = "standard" /\ o.ttl = 0 /\ o.updateMissing = "unset"}

NextRace ==
  \/ \E path \in Files :
       /\ steps < MaxRaceSteps /\ steps' = steps + 1
       /\ UNCHANGED inFlight
       /\ Modified(path)
  \/ \E path \in Files, opts \in RaceOptions :
       \E out \in Outcomes(path) :
         /\ steps < MaxRaceSteps /\ steps' = steps + 1
         /\ Began(path, opts, out)
  \/ \E x \in DOMAIN inFlight :
       /\ steps < MaxRaceSteps /\ steps' = steps + 1
       /\ Ended(x)

SpecRace == Init /\ [][NextRace]_vars

\* --------------------------------------- files that change between the calls
\* Calls of extractFeatures, one after the other, on files that are rewritten
\* in between
DriftOptions == {o \in ExtractOptions : o.ttl = 0}

NextDrift ==
  \/ \E path \in Files :
       /\ steps < MaxDriftSteps /\ steps' = steps + 1
       /\ UNCHANGED inFlight
       /\ Modified(path)
  \/ \E path \in Files, opts \in DriftOptions :
       \E out \in Outcomes(path) :
         /\ steps < MaxDriftSteps /\ steps' = steps + 1
         /\ UNCHANGED inFlight
         /\ Extracted(path, opts, out)

SpecDrift == Init /\ [][NextDrift]_vars

\* ------------------------------------------------ many calls at the same time
\* Requests that arrive while the extractors of earlier requests run.  The
\* concurrencyLimit of DirectFeatureOrchestrator is a field no method uses,
\* and getServer makes one orchestrator for each request.
LimitOptions ==
  {o \in ExtractOptions : o.mode = "standard" /\ o.ttl = 0 /\ o.updateMissing = "unset"
                          /\ ~o.force}

\* The extractors that are running
ProvidersInFlight ==
  LET Extracts(x) == x.kind = "extract"
  IN  BagCardinality(Filter(inFlight, Extracts))

NextLimit ==
  \/ \E path \in Files, opts \in LimitOptions :
       \E out \in Outcomes(path) :
         /\ steps < MaxLimitSteps /\ steps' = steps + 1
         /\ Began(path, opts, out)
  \/ \E x \in DOMAIN inFlight :
       /\ steps < MaxLimitSteps /\ steps' = steps + 1
       /\ Ended(x)

SpecLimit == Init /\ [][NextLimit]_vars

\* ------------------------------------------- the directory of a file over time
\* Calls of extractFeatures, the passes they start, and the seconds that pass
\* until the summary of a directory expires
FreshOptions ==
  {o \in ExtractOptions : o.mode = "standard" /\ ~o.force /\ o.updateMissing = "unset"}

NextFresh ==
  \/ /\ steps < MaxFreshSteps /\ steps' = steps + 1
     /\ UNCHANGED inFlight
     /\ Ticked
  \/ \E path \in Files, opts \in FreshOptions :
       \E out \in Outcomes(path) :
         /\ steps < MaxFreshSteps /\ steps' = steps + 1
         /\ UNCHANGED inFlight
         /\ Extracted(path, opts, out)
  \/ \E task \in pending :
       \E outs \in OutcomeMaps(FilesUnder(task.dir, task.recursive)),
          unlistable \in {{}, {task.dir}} :
         /\ steps < MaxFreshSteps /\ steps' = steps + 1
         /\ UNCHANGED inFlight
         /\ BackgroundIndexed(task, outs, unlistable)

SpecFresh == Init /\ [][NextFresh]_vars

\* ------------------------------------------ the writes of one call, one by one
\* extractVideoFeatures stores each snapshot as soon as ffmpeg has written it
\* and goes on to wait for ffmpeg again; the other features of the call are
\* stored when the extractor has returned.  Queries run in between.
\* The snapshots the call x writes
Snapshots(x) ==
  IF Class(x.resource.mimeType) = "video" /\ x.out.kind # "noffmpeg"
    THEN written(percentagesToExtract(EffectiveMode(x.opts), x.existing,
                                      x.opts.updateMissing # "false"), x.out)
    ELSE << >>

\* ffmpeg has written the next snapshot of the call x: the call stores it
SnapshotStored(x) ==
  /\ x \in DOMAIN inFlight /\ x.kind = "extract"
  /\ x.done < Len(Snapshots(x))
  /\ features' = storeFeatures(features, x.resource.url,
                               << snapshot(x.resource,
                                           IF x.opts.ttl = 0 THEN DefaultExtractTtl
                                                             ELSE x.opts.ttl,
                                           Snapshots(x)[x.done + 1]) >>, clock)
  /\ inFlight' = Add(Remove(inFlight, x), [x EXCEPT !.done = @ + 1])
  /\ last' = [ op |-> "storeSnapshot", path |-> x.path ]
  /\ UNCHANGED << clock, content, resources, pending >>

PartialOptions ==
  {o \in ExtractOptions : o.mode = "standard" /\ o.ttl = 0 /\ o.updateMissing = "unset"}

PartialParams ==
  {q \in QueryParams : q.url # NoUrl /\ q.featureKeys = {} /\ ~q.includeExpired}

NextPartial ==
  \/ \E path \in Files, opts \in PartialOptions :
       \E out \in Outcomes(path) :
         /\ steps < MaxPartialSteps /\ steps' = steps + 1
         /\ Began(path, opts, out)
  \/ \E x \in DOMAIN inFlight :
       /\ steps < MaxPartialSteps /\ steps' = steps + 1
       /\ SnapshotStored(x)
  \/ \E x \in DOMAIN inFlight :
       /\ steps < MaxPartialSteps /\ steps' = steps + 1
       /\ x.kind = "extract" /\ x.done = Len(Snapshots(x))
       /\ Ended(x)
  \/ \E params \in PartialParams :
       /\ steps < MaxPartialSteps /\ steps' = steps + 1
       /\ UNCHANGED inFlight
       /\ Queried(params)

SpecPartial == Init /\ [][NextPartial]_vars

\* ------------------------------------------------- the locators of a file
\* The two texts that name a file: its absolute path, and the url that load
\* returns for it and that every stored row and returned feature carries
Locators == {Plain(f) : f \in Files} \cup {FileUrl(f) : f \in Files}

\* extractFeatures(resourceUrl, options) with the locator as the caller gives
\* it; recursivelyExtractFromDirectory calls it with `file://${fullPath}`
ExtractAt(loc, opts, out) ==
  /\ Step
  /\ loc.path \in Tracked \/ Cardinality(Tracked) < MaxResources
  /\ \E r \in {extractFeatures(DB, content, loc, opts, out, clock)},
        b \in {extractFeatures(DB, content, Plain(loc.path), opts, out, clock)} :
       /\ resources' = r.resources
       /\ features' = r.features
       /\ pending' = r.pending
       /\ last' = [ op |-> "extractAt", loc |-> loc, path |-> loc.path, opts |-> opts,
                    loaded |-> r.loaded, raised |-> r.raised, hit |-> r.hit,
                    returned |-> r.returned,
                    \* the same call with the absolute path for a locator
                    byPath |-> [ raised |-> b.raised, hit |-> b.hit,
                                 returned |-> b.returned, resources |-> b.resources,
                                 features |-> b.features ] ]
  /\ UNCHANGED << clock, content >>

LocatorOptions ==
  {o \in ExtractOptions : o.mode = "standard" /\ o.ttl = 0 /\ o.updateMissing = "unset"}

NextLocator ==
  \/ Tick
  \/ \E loc \in Locators, opts \in LocatorOptions :
       \E out \in Outcomes(loc.path) : ExtractAt(loc, opts, out)

SpecLocator == Init /\ [][NextLocator]_vars

\* ------------------------------------------- a database that refuses a write
\* An error object: its class and its code
Error(name, code) == [name |-> name, code |-> code]

\* What stmt.run and the transaction of better-sqlite3 throw; FeatureDatabase
\* catches nothing
SqliteError == Error("SqliteError", "SQLITE_ERROR")

\* What the loader and the extractors throw
OtherError == Error("Error", "")

\* catch (error) { throw new FeatureStoreError(ErrorCode.EXTRACTION_FAILED, ...) }
\* at the end of extractFeatures: whatever was thrown inside
rethrown(error) == Error("FeatureStoreError", "EXTRACTION_FAILED")

\* The statements of FeatureDatabase that can be made to throw
Failing == {"none", "upsertResource", "storeFeatures"}

\* The call got as far as the statement that throws; r is what the call does
\* when the database accepts every write
Reached(r, failing) ==
  \/ failing = "upsertResource" /\ r.loaded /\ ~r.hit
  \/ failing = "storeFeatures" /\ r.loaded /\ ~r.hit /\ ~r.raised /\ r.returned # {}

\* extractFeatures when the statement failing throws: the writes from that
\* statement on are not made, and the catch at the end rethrows
extractFeaturesFailing(db, r, failing) ==
  [ resources |-> IF failing = "upsertResource" /\ Reached(r, failing)
                    THEN db.resources ELSE r.resources,
    features  |-> IF Reached(r, failing) THEN db.features ELSE r.features,
    pending   |-> r.pending,
    thrown    |-> IF Reached(r, failing) THEN {SqliteError}
                  ELSE IF r.raised THEN {OtherError} ELSE {},
    error     |-> IF Reached(r, failing) THEN {rethrown(SqliteError)}
                  ELSE IF r.raised THEN {rethrown(OtherError)} ELSE {},
    returned  |-> IF Reached(r, failing) THEN {} ELSE r.returned ]

ExtractFailing(path, opts, out, failing) ==
  /\ Step
  /\ path \in Tracked \/ Cardinality(Tracked) < MaxResources
  /\ \E r \in {extractFeatures(DB, content, Plain(path), opts, out, clock)} :
       \E f \in {extractFeaturesFailing(DB, r, failing)} :
         /\ resources' = f.resources
         /\ features' = f.features
         /\ pending' = f.pending
         /\ last' = [ op |-> "extractFailing", path |-> path, opts |-> opts,
                      failing |-> failing, thrown |-> f.thrown, error |-> f.error,
                      returned |-> f.returned ]
  /\ UNCHANGED << clock, content >>

StorageOptions ==
  {o \in ExtractOptions : o.ttl = 0 /\ o.updateMissing = "unset"}

NextStorage ==
  \/ \E path \in Files : Modify(path)
  \/ \E path \in Files, opts \in StorageOptions :
       \E out \in Outcomes(path), failing \in Failing :
         ExtractFailing(path, opts, out, failing)

SpecStorage == Init /\ [][NextStorage]_vars

\* ---------------------------------------------------- embeddings for text
\* What the OpenAI client does to a call of EmbeddingExtractor: there is no API
\* key ("unavailable"), the text is shorter than 10 characters ("short"), the
\* request fails ("fail"), or one chunk is embedded ("ok")
Embeddings == {"unavailable", "short", "fail", "ok"}

\* isAvailable(): this.openai !== null
isAvailable(emb) == emb # "unavailable"

\* One object EmbeddingExtractor.extractFeatures pushes: {featureKey, value,
\* type, extractorTool, ttl, metadata}.  It has no valueType, resourceUrl,
\* generatedAt or expiresAt, and the orchestrator reads f.valueType: the type
\* it hands to storeFeatures is undefined.
EmbeddingFeature(key, resource, ttl) ==
  [ url |-> NoUrl, key |-> key, value |-> JSONstringify(Val("vector", resource.checksum, 0)),
    type |-> "undefined", generatedAt |-> -1, ttl |-> ttl, expiresAt |-> -1,
    tool |-> "embedding-extractor" ]

\* EmbeddingExtractor.extractFeatures(resource, ttl)
embeddingExtractFeatures(resource, ttl, emb) ==
  [ threw    |-> emb = "fail",
    features |-> IF emb = "ok"
                   THEN << EmbeddingFeature("embedding.chunk_0", resource, ttl),
                           EmbeddingFeature("embedding.document", resource, ttl) >>
                   ELSE << >> ]

\* The text branch of extractFeatures with options.includeEmbeddings: r is
\* what the call does up to the end of extractTextFeatures, ex what
\* extractTextFeatures returned.  A throw of the embedding extractor is caught
\* and logged; the features are stored in one transaction.
withEmbeddings(db, r, resource, ex, opts, includeEmbeddings, emb, now) ==
  LET called == /\ r.loaded /\ ~r.hit /\ r.class = "text"
                /\ includeEmbeddings /\ isAvailable(emb)
      got == embeddingExtractFeatures(resource,
                                      IF opts.ttl = 0 THEN DefaultExtractTtl ELSE opts.ttl,
                                      emb)
      all == IF called /\ ~got.threw THEN ex.features \o got.features ELSE ex.features
      stored == storeFeaturesInTransaction(ex.table, resource.url,
                                           featuresToStore(all), now)
  IN  IF ~called
        THEN [ resources |-> r.resources, features |-> r.features,
               pending |-> r.pending, embedded |-> FALSE,
               raised |-> r.raised, returned |-> r.returned ]
        ELSE [ resources |-> r.resources,
               features |-> IF Len(all) > 0 THEN stored.table ELSE ex.table,
               pending |-> r.pending, embedded |-> TRUE,
               raised |-> Len(all) > 0 /\ stored.threw,
               returned |-> IF Len(all) > 0 /\ stored.threw THEN {} ELSE Range(all) ]

\* extractFeatures(resourceUrl, {..., includeEmbeddings})
ExtractEmbedding(path, opts, out, includeEmbeddings, emb) ==
  /\ Step
  /\ path \in Tracked \/ Cardinality(Tracked) < MaxResources
  /\ \E r \in {extractFeatures(DB, content, Plain(path), opts, out, clock)} :
       \E e \in {withEmbeddings(DB, r, load(content, Plain(path), out, clock).resource,
                                runExtractor(features,
                                             load(content, Plain(path), Out("ok", 0),
                                                  clock).resource,
                                             opts, r.existing, clock, out),
                                opts, includeEmbeddings, emb, clock)} :
         /\ resources' = e.resources
         /\ features' = e.features
         /\ pending' = e.pending
         /\ last' = [ op |-> "extractEmbedding", path |-> path, opts |-> opts,
                      includeEmbeddings |-> includeEmbeddings, emb |-> emb,
                      class |-> r.class, embedded |-> e.embedded,
                      raised |-> e.raised, returned |-> e.returned,
                      \* the same call without includeEmbeddings
                      alone |-> [ raised |-> r.raised, returned |-> r.returned,
                                  stored |-> RowsOf(r.features, FileUrl(path)) ] ]
  /\ UNCHANGED << clock, content >>

EmbedOptions ==
  {o \in ExtractOptions : o.ttl = 0 /\ o.mode = "standard"}

NextEmbed ==
  \/ \E path \in Files : Modify(path)
  \/ \E path \in Files, opts \in EmbedOptions :
       \E out \in Outcomes(path), includeEmbeddings \in BOOLEAN, emb \in Embeddings :
         ExtractEmbedding(path, opts, out, includeEmbeddings, emb)

SpecEmbed == Init /\ [][NextEmbed]_vars

\* ------------------------------------------------- storeFeatures called alone
StoreKeys == {"text.content", "text.word_count"}

\* The features a caller hands to storeFeatures; "string" is a value type the
\* table does not allow
StoreFeature ==
  [ key : StoreKeys, value : {Val("text", 0, 0)}, type : {"text", "string"},
    ttl : TtlOptions, tool : {"built-in"} ]

MaxBatch == 2

StoreBatches == UNION {[1..n -> StoreFeature] : n \in 0..MaxBatch}

\* db.storeFeatures(resourceUrl, features)
StoreFeatures(path, batch) ==
  /\ Step
  /\ \E r \in {storeFeaturesInTransaction(features, FileUrl(path), batch, clock)} :
       /\ features' = r.table
       /\ last' = [ op |-> "storeFeatures", path |-> path, batch |-> batch,
                    raised |-> r.threw ]
  /\ UNCHANGED << clock, content, resources, pending >>

NextStore ==
  \/ Tick
  \/ \E batch \in StoreBatches : StoreFeatures("/d/a.txt", batch)

SpecStore == Init /\ [][NextStore]_vars

\* ------------------------------------------------ upsertResource called alone
\* The records a caller hands to upsertResource, but for the time: a path is a
\* file or, once it has been replaced, a directory; a file may be empty
ResourceInputs ==
  { [ url |-> FileUrl(path), type |-> type, lastProcessed |-> 0,
      checksum |-> IF type = "directory" THEN -1 ELSE checksum,
      size |-> size,
      mimeType |-> IF type = "directory" THEN "inode/directory" ELSE lookup(path) ] :
      path \in {"/d/a.txt", "/d/s/b.png"}, type \in {"file", "directory"},
      checksum \in 0..MaxVersion, size \in {0, 10} }

\* db.upsertResource(resource), with lastProcessed the time of the call
UpsertResource(resource) ==
  /\ Step
  /\ resources' = upsertResource(resources, [resource EXCEPT !.lastProcessed = clock])
  /\ last' = [ op |-> "upsertResource",
               resource |-> [resource EXCEPT !.lastProcessed = clock] ]
  /\ UNCHANGED << clock, content, features, pending >>

NextUpsert ==
  \/ Tick
  \/ \E resource \in ResourceInputs : UpsertResource(resource)

SpecUpsert == Init /\ [][NextUpsert]_vars

\* ------------------------------------------- the operations of the cache
\* getStats(): the counts of the two tables.  The count of the enabled rows of
\* extractor_registry is left out: no operation of the model writes that table.
getStats(resourceTbl, featureTbl, now) ==
  LET Expired(r) == r.expiresAt < now
  IN  [ totalResources  |-> Cardinality(resourceTbl),
        totalFeatures   |-> BagCardinality(featureTbl),
        expiredFeatures |-> BagCardinality(Filter(featureTbl, Expired)) ]

\* The stats tool: db.getStats()
Stats ==
  /\ Step
  /\ last' = [Quiet EXCEPT !.op = "stats",
                           !.returned = {getStats(resources, features, clock)}]
  /\ UNCHANGED << clock, content, resources, features, pending >>

CacheOptions ==
  {o \in ExtractOptions : o.updateMissing = "unset" /\ o.ttl = 1}

CacheParams ==
  {q \in QueryParams : q.url = NoUrl /\ q.featureKeys = {}}

\* Every operation that reads or writes the two tables
NextCache ==
  \/ Tick
  \/ \E path \in Files, opts \in CacheOptions :
       \E out \in Outcomes(path) : Extract(path, opts, out)
  \/ \E batch \in StoreBatches : StoreFeatures("/d/a.txt", batch)
  \/ \E resource \in ResourceInputs : UpsertResource(resource)
  \/ \E params \in CacheParams : Query(params)
  \/ \E path \in Files, featureKey \in UpdateKeys, ttl \in UpdateTtls :
       UpdateTTL(FileUrl(path), featureKey, ttl)
  \/ Sweep
  \/ Stats

SpecCache == Init /\ [][NextCache]_vars

\* ------------------------------------------------------------- properties
KeyValues(feats) == {<< f.key, f.value >> : f \in feats}

\* The rows the cache holds for the file at path
Cached(path) == RowsOf(features, FileUrl(path))

\* C1: when extract succeeded with force=false and returned features, and is
\* called again for the same unchanged file with force=false and no
\* updateMissing, while every stored feature of the file is unexpired, the
\* second call invokes no provider and returns the keys and values the first
\* call returned.
C1_Idempotence ==
  [][ ( /\ last.op = "extract" /\ ~last.raised /\ last.returned # {}
        /\ ~last.opts.force /\ last.opts.updateMissing = "unset"
        /\ last'.op = "extract" /\ last'.path = last.path /\ last'.loaded
        /\ ~last'.opts.force /\ last'.opts.updateMissing = "unset"
        /\ content' = content /\ clock' = clock
        /\ \A r \in Cached(last.path) : r.expiresAt > clock )
      => ( /\ ~last'.raised
           /\ last'.invoked = {}
           /\ KeyValues(last'.returned) = KeyValues(last.returned) ) ]_vars

\* C2: when the bytes of a file differ from the checksum on record, an extract
\* with force=false that succeeds is no cache hit: it invokes the provider with
\* no key taken as existing, every feature it returns is computed from the new
\* bytes at the time of the call and is stored, and the keys returned are the
\* full scope of the mode.
C2_ChecksumInvalidation ==
  ( last.op = "extract" /\ last.changed /\ ~last.opts.force /\ ~last.raised )
  => /\ ~last.hit
     /\ last.invoked # {}
     /\ \A f \in last.returned :
          /\ f.value.v = content[last.path]
          /\ f.generatedAt = clock
          /\ \E r \in Cached(last.path) :
               /\ r.key = f.key /\ r.generatedAt = clock
               /\ r.value.v = content[last.path]
     /\ ( last.returned # {} =>
            {f.key : f \in last.returned} =
              ReturnedKeys(last.path, EffectiveMode(last.opts), {}, FALSE) )

C2_Witness ==
  /\ last.op = "extract" /\ last.changed /\ ~last.opts.force /\ ~last.raised
  /\ last.returned # {}
  /\ \E r \in resources : r.url = FileUrl(last.path) /\ r.checksum = content[last.path]

\* C3: when the cache holds exactly the keys of a minimal extraction of a file,
\* all unexpired, and the file is unchanged, an extract with mode=standard and
\* updateMissing=true adds rows for exactly the keys of the standard scope that
\* are not in the minimal scope and leaves every row it found as it was.
C3_GapFilling ==
  [][ ( /\ last'.op = "extract" /\ ~last'.raised
        /\ last'.opts.mode = "standard" /\ last'.opts.updateMissing = "true"
        /\ ~last'.opts.force
        /\ Cached(last'.path) # {}
        /\ KeysOf(features, FileUrl(last'.path)) =
             SelectedKeys(last'.path, "minimal", {}, FALSE)
        /\ \A r \in Cached(last'.path) : r.expiresAt > clock
        /\ \E r \in resources :
             r.url = FileUrl(last'.path) /\ r.checksum = content[last'.path] )
      => ( /\ KeysOf(features', FileUrl(last'.path)) \ KeysOf(features, FileUrl(last'.path))
                = SelectedKeys(last'.path, "standard", {}, FALSE)
                    \ SelectedKeys(last'.path, "minimal", {}, FALSE)
           /\ \A r \in Cached(last'.path) : r \in Rows(features')
           /\ {f.key : f \in last'.returned} \cap KeysOf(features, FileUrl(last'.path)) = {} ) ]_vars

C3_Witness ==
  /\ last.op = "extract" /\ ~last.raised /\ ~last.hit
  /\ last.opts.mode = "standard" /\ last.opts.updateMissing = "true"
  /\ ~last.opts.force
  /\ last.invoked = {"text"} /\ last.returned = {}
  /\ KeysOf(features, FileUrl(last.path)) = SelectedKeys(last.path, "minimal", {}, FALSE)
  /\ \A r \in Cached(last.path) : r.generatedAt < clock /\ r.expiresAt > clock

\* C4: for every file class, every set of existing keys and either value of
\* updateMissing, the keys selected under minimal are among those selected
\* under standard, which are among those selected under maximal.
C4_ModeMonotonicity ==
  last.op = "selected"
  => /\ last.keys["minimal"] \subseteq last.keys["standard"]
     /\ last.keys["standard"] \subseteq last.keys["maximal"]

C4_Witness ==
  /\ last.op = "selected" /\ last.updateMissing /\ last.existing # {}
  /\ last.keys["minimal"] # last.keys["standard"]
  /\ last.keys["standard"] # last.keys["maximal"]
  /\ last.keys["maximal"] # ClassKeys(last.path)

\* C5: in every state, for every filter, a query with includeExpired=false
\* returns exactly the stored rows that match the filter and expire strictly
\* after now, and a query with includeExpired=true returns every stored row
\* that matches the filter.
C5_TtlVisibility ==
  \A params \in QueryParams :
    LET Fits(r) == /\ (params.url = NoUrl \/ r.url = params.url)
                   /\ (params.featureKeys = {} \/ r.key \in params.featureKeys)
    IN  Rows(queryFeatures(features, params, clock)) =
          {r \in Rows(features) :
             Fits(r) /\ (params.includeExpired \/ r.expiresAt > clock)}

C5_Witness ==
  /\ last.op = "query" /\ last.returned = {}
  /\ \E r \in Rows(features) : r.expiresAt = clock

\* C6: a sweep leaves exactly the rows whose expiry is later than the time of
\* the sweep, and returns the number of rows it deleted.
C6_SweepExact ==
  [][ last'.op = "sweep"
      => LET Later(r) == r.expiresAt > clock
         IN  /\ features' = Filter(features, Later)
             /\ last'.returned =
                  {BagCardinality(features) - BagCardinality(features')} ]_vars

\* C7: an extract that invoked a provider, and whose every provider invocation
\* failed, raises.
C7_TotalFailureRaises ==
  ( last.op = "extract" /\ last.invoked # {} /\ last.completed = {} )
  => last.raised

\* C8: an extract of which at least one applicable provider completed without
\* error does not raise, and it invoked every applicable provider.
C8_PartialSuccess ==
  ( last.op = "mcpExtract" /\ last.completed # {} )
  => /\ ~last.raised
     /\ last.invoked =
          Range(findExtractors(lookup(last.path), last.opts.extractors))

\* C9: the features table never holds two rows for one (resource, key) pair.
C9_FeatureUniqueness ==
  /\ \A r \in DOMAIN features : features[r] = 1
  /\ \A r1, r2 \in DOMAIN features :
       (r1.url = r2.url /\ r1.key = r2.key) => r1 = r2

\* The snapshot row written as binary data has been overwritten by the row
\* that holds the snapshot's URL
C9_Witness ==
  /\ last.op = "extract" /\ ~last.raised /\ ~last.hit
  /\ \E f \in last.returned : f.key = "video.snapshot_50"
  /\ \E r \in Rows(features) : r.key = "video.snapshot_50" /\ r.type = "text"

\* C10: indexDirectory processes at most maxFiles files, and exactly maxFiles
\* when a listing without the cap holds more.
C10_MaxFilesCap ==
  last.op = "indexDirectory"
  => LET cap == IF last.maxFiles = -1 THEN DefaultMaxFiles ELSE last.maxFiles
         processed == Range(last.results.indexed) \cup Range(last.results.skipped)
                        \cup Range(last.results.errors)
     IN  /\ Cardinality(processed) <= cap
         /\ (Cardinality(last.eligible) > cap => Cardinality(processed) = cap)


\* C11: a directory-indexing pass starts no pass: when one has run, the passes
\* waiting are those that waited before, less the one that ran, so the chain a
\* public extract call triggers ends; and an extract call starts at most one
\* pass.
C11_BoundedRecursion ==
  [][ /\ ( last'.op = "indexDirectory"
           => pending' \subseteq pending /\ pending' # pending )
      /\ ( last'.op = "extract"
           => pending \subseteq pending' /\ Cardinality(pending' \ pending) <= 1 ) ]_vars

\* A pass started by an extract call has run and has itself called extract
C11_Witness ==
  /\ last.op = "indexDirectory"
  /\ last.results.indexed # << >>
  /\ pending = {}


\* C12: updateTTL on a (resource, key) pair that has a row gives that row the
\* new ttl and the expiry (time of the update + ttl) and changes nothing else
\* in the table; on a pair that has no row it raises and the table is as it
\* was.
C12_UpdateTTL ==
  [][ last'.op = "updateTTL"
      => LET Hit(r) == r.url = FileUrl(last'.path) /\ r.key = last'.key
             hit == {r \in Rows(features) : Hit(r)}
         IN  IF hit = {}
               THEN last'.raised /\ features' = features
               ELSE /\ ~last'.raised
                    /\ \A r \in Rows(features) : ~Hit(r) => CopiesIn(r, features') = CopiesIn(r, features)
                    /\ Rows(features') =
                         {r \in Rows(features) : ~Hit(r)} \cup
                         {[r EXCEPT !.ttl = last'.ttl,
                                    !.expiresAt = clock + last'.ttl] : r \in hit} ]_vars

\* An update that found its row, some time after the row was generated, next
\* to another row of the same resource
C12_Witness ==
  /\ last.op = "updateTTL" /\ ~last.raised
  /\ \E r \in Cached(last.path) :
       /\ r.key = last.key /\ r.ttl = last.ttl
       /\ r.generatedAt < clock /\ r.expiresAt = clock + last.ttl
  /\ \E r \in Cached(last.path) : r.key # last.key


\* C13: when a feature of the batch cannot be written, storeFeatures raises
\* and the table is as it was before the call; otherwise it does not raise,
\* every key of the batch has a row written at the time of the call from the
\* last feature of the batch with that key, with the feature's ttl (3600 when
\* none was given) and expiry = time of the call + ttl, and the rows of the
\* other keys are as they were.
C13_StoreAllOrNothing ==
  [][ last'.op = "storeFeatures"
      => LET batch == last'.batch
             url == FileUrl(last'.path)
             Last(i) == \A j \in (i + 1)..Len(batch) : batch[j].key # batch[i].key
             Given(i) == IF batch[i].ttl = 0 THEN 3600 ELSE batch[i].ttl
         IN  IF \E i \in 1..Len(batch) : batch[i].type \notin ValueTypes
               THEN last'.raised /\ features' = features
               ELSE /\ ~last'.raised
                    /\ \A i \in 1..Len(batch) :
                         Last(i) =>
                           \E r \in Rows(features') :
                             /\ r.url = url /\ r.key = batch[i].key
                             /\ r.generatedAt = clock /\ r.ttl = Given(i)
                             /\ r.expiresAt = clock + Given(i)
                             /\ CopiesIn(r, features') = 1
                    /\ \A r \in Rows(features) \cup Rows(features') :
                         (r.url # url \/ r.key \notin {batch[i].key : i \in 1..Len(batch)})
                           => CopiesIn(r, features') = CopiesIn(r, features) ]_vars

\* A batch whose second feature could not be written was refused, some time
\* after a batch was stored
C13_Witness ==
  /\ last.op = "storeFeatures" /\ last.raised
  /\ Len(last.batch) = 2
  /\ last.batch[1].type \in ValueTypes /\ last.batch[2].type \notin ValueTypes
  /\ \E r \in Rows(features) : r.generatedAt < clock


\* C14: after upsertResource the table holds one row for the identity written,
\* that row carries the written value of every field, the rows of the other
\* identities are as they were, and writing the same record again changes
\* nothing.
C14_UpsertLastWriteWins ==
  [][ last'.op = "upsertResource"
      => /\ {r \in resources' : r.url = last'.resource.url} = {last'.resource}
         /\ {r \in resources' : r.url # last'.resource.url} =
              {r \in resources : r.url # last'.resource.url}
         /\ upsertResource(resources', last'.resource) = resources' ]_vars


\* C15: every row of the features table has expiry = generation time + ttl.
C15_ExpiryInvariant ==
  \A r \in Rows(features) : r.expiresAt = r.generatedAt + r.ttl


\* C16: the updates of a streaming extract begin with the started update of
\* the invocation; no extractor's started update comes after that extractor's
\* features or error update; and there is exactly one complete update, which
\* is the last update.
C16_StreamOrder ==
  last.op = "stream"
  => LET ev == last.events
         n == Len(ev)
         Result(i) == /\ ev[i].extractor # ""
                      /\ ev[i].type \in {"feature_extracted", "extraction_error"}
     IN  /\ n >= 1 /\ ev[1] = Update("extraction_started", "")
         /\ \A i, j \in 1..n :
              ( Result(i) /\ ev[j] = Update("extraction_started", ev[i].extractor) )
                => j < i
         /\ Cardinality({i \in 1..n : ev[i].type = "extraction_complete"}) = 1
         /\ ev[n].type = "extraction_complete"


\* C17: when every key in the scope of the mode is stored and unexpired for an
\* unchanged file, an extract with updateMissing=true whose provider completes
\* adds no key for the file, leaves every row of the file as it was, and
\* returns the rows that were stored.
C17_NothingMissing ==
  [][ ( /\ last'.op = "extract" /\ last'.loaded /\ ~last'.raised
        /\ last'.completed = last'.invoked
        /\ last'.opts.updateMissing = "true" /\ ~last'.opts.force
        /\ content' = content
        /\ \E r \in resources :
             r.url = FileUrl(last'.path) /\ r.checksum = content[last'.path]
        /\ Cached(last'.path) # {}
        /\ \A r \in Cached(last'.path) : r.expiresAt > clock
        /\ SelectedKeys(last'.path, EffectiveMode(last'.opts), {}, FALSE)
             \subseteq KeysOf(features, FileUrl(last'.path)) )
      => ( /\ KeysOf(features', FileUrl(last'.path)) = KeysOf(features, FileUrl(last'.path))
           /\ \A r \in Cached(last'.path) : r \in Rows(features')
           /\ last'.returned = Cached(last'.path) ) ]_vars


\* The keys of the directory metadata features in the scope of a mode
DirectoryKeys(mode) ==
  {k \in {"directory.metadata", "directory.file_count", "directory.total_size",
          "directory.subdirectory_count"} : shouldExtractFeature(k, mode, {}, FALSE)}

\* C18: an extract on a directory does not raise; the resources table then
\* holds the directory with type directory, and the call returns and stores,
\* under the URL of the directory, the directory metadata features in the
\* scope of the mode.
C18_DirectoryExtraction ==
  ( last.op = "extract" /\ last.path \in Dirs )
  => /\ ~last.raised
     /\ \E r \in resources : r.url = FileUrl(last.path) /\ r.type = "directory"
     /\ DirectoryKeys(EffectiveMode(last.opts)) \subseteq {f.key : f \in last.returned}
     /\ DirectoryKeys(EffectiveMode(last.opts)) \subseteq KeysOf(features, FileUrl(last.path))


\* C19: after an extract that did not raise and returned features, a query
\* whose url is the locator the extract was called with finds, for every key
\* the call returned, the row stored for it.
C19_ExtractQueryRoundTrip ==
  ( last.op = "extract" /\ ~last.raised /\ last.returned # {} )
  => \A f \in last.returned :
       \E r \in Rows(queryFeatures(features, QueryUrl(Plain(last.path)), clock)) :
         r.key = f.key /\ r \in Rows(features)


\* C20: at no time are two extractions of one file in flight.
C20_AtMostOneInFlight ==
  \A path \in Files : InFlightOf(path) <= 1

\* C21: whenever no extraction is in flight, every stored feature that depends
\* on the bytes of its resource was computed from the bytes whose checksum the
\* record of that resource holds.
C21_ChecksumConsistency ==
  (\A x \in DOMAIN inFlight : x.kind # "extract") =>
    \A row \in Rows(features), r \in resources :
      (r.url = row.url /\ row.value.v # -1) => row.value.v = r.checksum

\* C22: every feature a call of extract with force=false returns was computed
\* from the bytes the call loaded, and when such a call fills gaps and its
\* provider completes, no feature in the scope of its mode is left standing
\* that was computed from other bytes (none was taken as already present).
C22_NoStaleHit ==
  ( /\ last.op = "extract" /\ last.loaded /\ ~last.raised
    /\ ~last.opts.force )
  => /\ \A f \in last.returned : f.value.v \in {-1, content[last.path]}
     /\ ( /\ last.opts.updateMissing = "true"
          /\ last.completed \cap {"text", "image"} # {} )
        => \A row \in Cached(last.path) :
             row.key \in SelectedKeys(last.path, EffectiveMode(last.opts), {}, FALSE)
               => row.value.v \in {-1, content[last.path]}

\* C23: after every call of extract that loaded its resource, cache hits
\* included, the record of the resource holds the checksum of the bytes loaded
\* and the time of the call as lastProcessed.
C23_RecordRefreshed ==
  (last.op = "extract" /\ last.loaded) =>
    \E r \in resources :
      /\ r.url = FileUrl(last.path)
      /\ r.checksum = content[last.path]
      /\ r.lastProcessed = clock

\* C24: no feature of a resource is written before the call that writes it
\* has upserted the record of the resource: whenever the extractor of a call
\* runs, the record of its resource is in the resources table already, and in
\* every state, between the steps of the calls and of the indexing passes too,
\* each stored feature, the summary of a directory included, has the record of
\* its resource.
C24_UpsertBeforeStore ==
  /\ \A x \in DOMAIN inFlight :
       x.kind = "extract" => \E r \in resources : r.url = x.resource.url
  /\ \A row \in Rows(features) : \E r \in resources : r.url = row.url

\* A call has stored the features its extractor produced
C24_Witness ==
  /\ last.op = "endExtract" /\ ~last.raised
  /\ Cached(last.path) # {}
  /\ \E r \in resources : r.url = FileUrl(last.path)

\* C25: at any time at most 5 provider invocations are in flight, counted
\* across all the extract calls that run.
C25_GlobalLimit == ProvidersInFlight <= ProviderLimit

Summaries(directory) ==
  {row \in RowsOf(features, FileUrl(directory)) : row.key = "directory.index_metadata"}

PassesOf(directory) ==
  LET Waits(x) == x.kind = "pass" /\ x.task.dir = directory
  IN  Cardinality({t \in pending : t.dir = directory})
        + BagCardinality(Filter(inFlight, Waits))

\* C28: at any time at most one indexing pass of a directory has been started
\* and not completed: a call of extract on a file of a directory that is being
\* indexed starts no second pass.
C28_SinglePass == \A directory \in Dirs : PassesOf(directory) <= 1

\* A call of extract with force=false on the file at path would be a cache
\* hit: the checksum on record is that of the bytes and the cache holds an
\* unexpired feature of the file
WouldHit(path) ==
  /\ \E r \in resources : r.url = FileUrl(path) /\ r.checksum = content[path]
  /\ queryFeatures(features, QueryUrl(FileUrl(path)), clock) # EmptyBag

\* C29: a pass of indexDirectory skips a file exactly when a call of extract
\* with force=false on it would be a cache hit; a file whose bytes changed
\* since it was cached is not skipped.
C29_SkipRule ==
  [][ last'.op = "indexDirectory" =>
        \A f \in Range(last'.results.indexed) \cup Range(last'.results.skipped)
                   \cup Range(last'.results.errors) :
          (f \in Range(last'.results.skipped)) <=> WouldHit(f) ]_vars

\* C30: when the cache raises a storage error during a call of extract, while
\* upserting the resource or storing features, the caller receives that
\* storage error, not an ExtractionFailed made from it.
C30_StorageErrorUnwrapped ==
  (last.op = "extractFailing" /\ SqliteError \in last.thrown)
    => last.error = {SqliteError}

\* C31: for a text resource, a call of extract with includeEmbeddings raises
\* only where the same call without includeEmbeddings raises, the text
\* features the call without it returns are returned and stored, and an
\* embedding extractor that reports itself unavailable is not called.
C31_EmbeddingsBestEffort ==
  ( last.op = "extractEmbedding" /\ last.includeEmbeddings /\ last.class = "text" )
  => /\ last.raised => last.alone.raised
     /\ ~last.alone.raised =>
          /\ last.alone.returned \subseteq last.returned
          /\ last.alone.stored \subseteq Cached(last.path)
     /\ ~isAvailable(last.emb) => ~last.embedded

\* The pairs of resource and key that the rows of tbl hold
Pairs(tbl) == {<< r.url, r.key >> : r \in Rows(tbl)}

\* C32: no operation but the sweep removes a feature row: after extract,
\* storeFeatures, updateTTL, upsertResource, query or stats every pair of
\* resource and key that was stored is still stored, and a query with
\* includeExpired returns it, expired or not.
C32_LazyDeletion ==
  [][ last'.op # "sweep" =>
        Pairs(features) \subseteq
          Pairs(queryFeatures(features', [QueryUrl(NoUrl) EXCEPT !.includeExpired = TRUE],
                              clock')) ]_vars

\* An operation other than the sweep has run while a row was expired, and the
\* row is still there
C32_Witness ==
  /\ last.op \in {"extract", "query", "stats", "updateTTL", "upsertResource"}
  /\ \E row \in Rows(features) : ~Unexpired(row, clock)

\* C33: when a directory cannot be listed during indexDirectory, the pass
\* still returns its results, every file of the directories that could be
\* listed is in them, and the directory that could not be listed is recorded
\* as skipped.  Taken where the walk reaches the directory: a walk into the
\* subdirectories that no maxFiles stops.
C33_ListingFailure ==
  ( /\ last.op = "indexDirectory" /\ last.unlistable # {}
    /\ last.recursive /\ last.maxFiles \in {-1, 0} )
  => /\ last.eligible \subseteq Range(last.results.indexed)
                                  \cup Range(last.results.skipped)
                                  \cup Range(last.results.errors)
     /\ last.unlistable \subseteq Range(last.results.skipped)

\* The extractors a stream started, by its events
StartedBy(events) ==
  {events[i].extractor : i \in {j \in 1..Len(events) :
      events[j].type = "extraction_started" /\ events[j].extractor # ""}}

\* C34: for the same locator, options and cache, the stream of
\* FeatureOrchestrator invokes the extractors the batch extract invokes (none
\* where the batch call is a cache hit) and leaves the two tables as the batch
\* call leaves them.
C34_StreamRefinesBatch ==
  [][ last'.op = "stream" =>
        \A opts \in RefineOptions, loadOut \in {Out("ok", 0), Out("loadfail", 0)},
           outs \in RefineOuts :
          McpExtractStream(last'.path, opts, loadOut, outs) =>
            \E batch \in {mcpExtractFeatures(DB, content, Plain(last'.path), opts,
                                             loadOut, outs, clock)} :
              /\ StartedBy(last'.events) = batch.invoked
              /\ features' = batch.features
              /\ resources' = batch.resources ]_vars

\* C35: the features one call of extract writes become visible together: a
\* query that runs while a call is under way, one whose extractor succeeds,
\* returns for the resource of the call either none of the keys the call
\* writes or all of them.
C35_NoPartialWrite ==
  last.op = "query" =>
    \A x \in DOMAIN inFlight :
      (x.kind = "extract" /\ x.out.kind = "ok") =>
        \E keys \in {SelectedKeys(x.path, EffectiveMode(x.opts), x.existing,
                                  x.opts.updateMissing # "false")} :
          {f.key : f \in {g \in last.returned : g.url = x.resource.url}} \cap keys
            \in {{}, keys}

\* How many times f is in seq
Occurrences(seq, f) == Cardinality({i \in 1..Len(seq) : seq[i] = f})

\* The pass over directory that waits for its files
PassOf(bag, directory) ==
  {y \in DOMAIN bag : y.kind = "pass" /\ y.task.dir = directory}

C37_StatsAgreeWithQueries ==
  [][ last'.op = "stats" =>
        /\ features' = features /\ resources' = resources
        /\ \A stats \in last'.returned :
             /\ stats.totalFeatures =
                  BagCardinality(queryFeatures(features',
                                   [QueryUrl(NoUrl) EXCEPT !.includeExpired = TRUE], clock'))
             /\ stats.expiredFeatures =
                  stats.totalFeatures
                    - BagCardinality(queryFeatures(features', QueryUrl(NoUrl), clock')) ]_vars

\* C38: when the resource cannot be loaded, extract raises and creates or
\* changes no row of the two tables, by itself or by background work it
\* started: it starts no pass, since a pass that runs stores at least the
\* record and the summary of its directory.
C38_FailedLoadNoEffect ==
  [][ (last'.op = "extract" /\ ~last'.loaded) =>
        /\ last'.raised
        /\ resources' = resources
        /\ features' = features
        /\ pending' \subseteq pending ]_vars

\* C39: after extract with mode M has returned for a file whose extractor
\* succeeds (or is not needed), every key the extractor of the file's class
\* produces in mode M has a stored, unexpired feature of the file, whatever
\* an extraction with a narrower mode left in the cache.
C39_ModeCoverage ==
  ( /\ last.op = "extract" /\ last.loaded /\ ~last.raised
    /\ last.hit \/ (last.completed # {} /\ last.returned # {}) )
  => \A key \in ReturnedKeys(last.path, EffectiveMode(last.opts), {}, FALSE) :
       \E row \in Cached(last.path) : row.key = key /\ Unexpired(row, clock)

\* C40: extract given file://<absolute path> addresses the resource that
\* extract given <absolute path> addresses: on the same cache the two calls
\* raise or return alike, hit the cache alike, return the same features and
\* leave the same rows, so the resourceUrl of a returned feature can be given
\* back to extract.
C40_LocatorCanonical ==
  ( last.op = "extractAt" /\ last.loc.scheme = "file://" )
  => /\ last.raised = last.byPath.raised
     /\ last.hit = last.byPath.hit
     /\ last.returned = last.byPath.returned
     /\ resources = last.byPath.resources
     /\ features = last.byPath.features

====
